---- MODULE Spec2Model ----
(***************************************************************************)
(* A model of the Wrench interpreter: of its back end, the runtime         *)
(* environment (src/src/backend/environment.rs), the evaluator             *)
(* (src/src/backend/evaluate.rs), the library functions                    *)
(* (src/src/backend/library.rs), tables (src/src/backend/table.rs) and     *)
(* the concurrent pipe engine (src/src/backend/pipes.rs), and of the front *)
(* end's type checker (src/src/frontend/typecheck.rs) and driver           *)
(* (src/src/frontend/main.rs).                                             *)
(*                                                                         *)
(* Conventions.  Rust enums are records with a "tag" field.  A panic is a  *)
(* non-empty "err" string in the evaluator state; a panicking operation    *)
(* leaves the rest of the state as it was when the panic was raised.       *)
(***************************************************************************)
EXTENDS Integers, Sequences, FiniteSets, TLC

VARIABLES
    \* ---- environment API machine (environment.rs) ----
    env,        \* Vec<Vec<EnvironmentCell>>: the scope stack under test
    envStatus,  \* "ok", or "panic" once an operation has panicked
    envLast,    \* the last operation applied and its arguments
    \* ---- statement evaluator machine (evaluate.rs) ----
    prog,       \* the Statement handed to evaluate_statement
    est,        \* evaluator state: [env, heap, out, err]
    eret,       \* StatementValue returned by evaluate_statement
    ephase,     \* "ready" before the call, "done" after it; in a run of the
                \* driver "parsed", "checked", then "done" or "rejected"
    verdict,    \* the Result of type_check in a run of the driver
    \* ---- pipe engine machine (pipes.rs) ----
    pexpr,      \* the Expr::Pipe being evaluated
    penv,       \* the evaluator's environment at the pipe expression
    memory,     \* the Rc<RefCell<Table>> cells of the process (the heap)
    memory0,    \* the heap when evaluate_pipes was entered
    stdout,     \* the writes made to stdout, each with the thread that made it
    epc,        \* position of the evaluator thread inside evaluate_pipes
    pipes,      \* Vec<SimplePipe> returned by pipe_rollout
    initial_expression, \* the initial expression returned by pipe_rollout
    spawned,    \* number of stage workers spawned so far
    joined,     \* number of threads joined so far
    table,      \* the output table evaluate_pipes collects into
    result,     \* the ExpressionValue evaluate_pipes returned
    thr,        \* the threads: 0 is the initial producer, i the worker of stage i
    chan,       \* the channels: chan[i] carries the rows thread i sends
    sent,       \* history: every row ever sent on chan[i], in order
    calls       \* history: the tables each reduce stage passed to its reducer

envVars  == <<env, envStatus, envLast>>
evalVars == <<prog, est, eret, ephase, verdict>>
pipeVars == <<pexpr, penv, memory, memory0, stdout, epc, pipes, initial_expression,
              spawned, joined, table, result, thr, chan, sent, calls>>
vars == <<envVars, evalVars, pipeVars>>

-----------------------------------------------------------------------------
(* Values: ExpressionValue (evaluate.rs:20-29)                              *)

Number(n) == [tag |-> "Number", v |-> n]
Bool(b)   == [tag |-> "Bool", v |-> b]
RowV(r)   == [tag |-> "Row", v |-> r]
TableV(r) == [tag |-> "Table", v |-> r]
ArrayV(a) == [tag |-> "Array", v |-> a]
StringV(x) == [tag |-> "String", v |-> x]
Null      == [tag |-> "Null"]

-----------------------------------------------------------------------------
(* Environment (environment.rs)                                             *)

\* EnvironmentCell::Variable(name, value)
Variable(n, val) == [tag |-> "Variable", name |-> n, value |-> val]
\* EnvironmentCell::Function(WrenchFunction)
Function(f) == [tag |-> "Function", f |-> f]

\* WrenchFunction::new
WrenchFunction(rt, n, ps, b, cl) ==
    [return_type |-> rt, name |-> n, parameters |-> ps, body |-> b, closure |-> cl]

\* the name a cell binds (the match in env_get_optional / env_get / env_add)
CellName(c) == IF c.tag = "Variable" THEN c.name ELSE c.f.name

\* index of the first cell of a scope that binds name, 0 if there is none
FindInScope(scope, name) ==
    LET hits == {i \in 1..Len(scope) : CellName(scope[i]) = name}
    IN IF hits = {} THEN 0 ELSE CHOOSE i \in hits : \A j \in hits : i <= j

None == <<>>

\* a lookup that stops at the innermost scope
env_get_optional_innermost(e, name) ==
    IF Len(e) = 0 \/ FindInScope(e[Len(e)], name) = 0 THEN None
    ELSE <<Len(e), FindInScope(e[Len(e)], name)>>

\* env_get_optional: innermost scope first, first match inside a scope;
\* the position <<scope, cell>> of the cell, None if the name is unbound
env_get_optional(e, name) ==
    LET hits == {s \in 1..Len(e) : FindInScope(e[s], name) # 0}
    IN IF hits = {} THEN None
       ELSE LET s == CHOOSE i \in hits : \A j \in hits : i >= j
            IN <<s, FindInScope(e[s], name)>>

env_new == <<>>

env_expand_scope(e) == Append(e, <<>>)

\* a shrink that pops nothing
env_keep_scope(e) == e

\* Vec::pop: no effect on an empty vector
env_shrink_scope(e) == IF Len(e) = 0 THEN e ELSE SubSeq(e, 1, Len(e) - 1)

\* env_get: the cell bound to name, or a panic
env_get(e, name) ==
    LET p == env_get_optional(e, name)
    IN IF p = None THEN [ok |-> FALSE, err |-> "identifier not found"]
       ELSE [ok |-> TRUE, cell |-> e[p[1]][p[2]]]

\* env_add: panics if the name is bound anywhere in the stack (or if there is
\* no scope to push into: last_mut().unwrap()); otherwise pushes on the
\* innermost scope
env_add(e, declaration) ==
    IF env_get_optional(e, CellName(declaration)) # None
    THEN [ok |-> FALSE, env |-> e, err |-> "already declared"]
    ELSE IF Len(e) = 0
    THEN [ok |-> FALSE, env |-> e, err |-> "unwrap on None"]
    ELSE [ok |-> TRUE, env |-> [e EXCEPT ![Len(e)] = Append(@, declaration)], err |-> ""]

\* an update that overwrites every variable of the scope of the binding
env_update_scope(e, name, expression) ==
    LET p == env_get_optional(e, name)
    IN IF p = None
       THEN [ok |-> FALSE, env |-> e, err |-> "identifier not found in the environment"]
       ELSE IF e[p[1]][p[2]].tag = "Variable"
       THEN [ok |-> TRUE,
             env |-> [e EXCEPT ![p[1]] =
                        [i \in 1..Len(@) |->
                            IF @[i].tag = "Variable"
                            THEN Variable(@[i].name, expression) ELSE @[i]]],
             err |-> ""]
       ELSE [ok |-> FALSE, env |-> e, err |-> "only variables can be reassigned"]

\* env_update: replaces the value of the nearest binding of name when it is a
\* variable; panics when it is a function or the name is unbound
env_update(e, name, expression) ==
    LET p == env_get_optional(e, name)
    IN IF p = None
       THEN [ok |-> FALSE, env |-> e, err |-> "identifier not found in the environment"]
       ELSE IF e[p[1]][p[2]].tag = "Variable"
       THEN [ok |-> TRUE, env |-> [e EXCEPT ![p[1]][p[2]].value = expression], err |-> ""]
       ELSE [ok |-> FALSE, env |-> e, err |-> "only variables can be reassigned"]

-----------------------------------------------------------------------------
(* AST (src/src/frontend/ast.rs).  Statement, Declaration, Expr and         *)
(* TypeConstruct are records with a tag; Parameter::Parameter(t, name) is   *)
(* the pair <<t, name>>; ColumnAssignment(t, name, e) the triple.           *)

TInt  == [tag |-> "Int"]
TBool == [tag |-> "Bool"]
TNull == [tag |-> "Null"]
TTable(params) == [tag |-> "Table", params |-> params]
TRow(params)   == [tag |-> "Row", params |-> params]

ENull == [tag |-> "Null"]
ENumber(n) == [tag |-> "Number", n |-> n]
EBool(b) == [tag |-> "Bool", b |-> b]
EStringLiteral(x) == [tag |-> "StringLiteral", str |-> x]
EIdentifier(x) == [tag |-> "Identifier", name |-> x]
EOperation(e1, op, e2) == [tag |-> "Operation", e1 |-> e1, op |-> op, e2 |-> e2]
ENot(e) == [tag |-> "Not", e |-> e]
ETable(params) == [tag |-> "Table", params |-> params]
ERow(cols) == [tag |-> "Row", cols |-> cols]
EArray(elems) == [tag |-> "Array", elems |-> elems]
EFunctionCall(x, args) == [tag |-> "FunctionCall", name |-> x, args |-> args]
EColumnIndexing(e, c) == [tag |-> "ColumnIndexing", e |-> e, col |-> c]
EPipe(e, x, args) == [tag |-> "Pipe", e |-> e, name |-> x, args |-> args]

SSkip == [tag |-> "Skip"]
SExpr(e) == [tag |-> "Expr", e |-> e]
SAssign(x, e) == [tag |-> "VariableAssignment", name |-> x, e |-> e]
SReturn(e) == [tag |-> "Return", e |-> e]
SIf(c, s1, s2) == [tag |-> "If", cond |-> c, s1 |-> s1, s2 |-> s2]
SFor(param, e, body) == [tag |-> "For", param |-> param, e |-> e, body |-> body]
SWhile(c, body) == [tag |-> "While", cond |-> c, body |-> body]
SCompound(s1, s2) == [tag |-> "Compound", s1 |-> s1, s2 |-> s2]
SDeclaration(d) == [tag |-> "Declaration", decl |-> d]
DVariable(t, x, e) == [tag |-> "Variable", ty |-> t, name |-> x, e |-> e]
DConstant(t, x, e) == [tag |-> "Constant", ty |-> t, name |-> x, e |-> e]
DFunction(t, x, params, body) ==
    [tag |-> "Function", ty |-> t, name |-> x, params |-> params, body |-> body]

-----------------------------------------------------------------------------
(* Tables and rows (src/src/backend/table.rs).  A Row is its data vector of *)
(* <<column name, TableCell>> pairs; a Table is a heap cell [data,          *)
(* structure, readers]: readers counts the live RefCell::borrow() guards of *)
(* the Rc<RefCell<Table>> the cell stands for.                              *)

CInt(i)  == [tag |-> "Int", v |-> i]
CBool(b) == [tag |-> "Bool", v |-> b]

\* Table::new
TableNew(structure) == [data |-> <<>>, structure |-> structure, readers |-> 0]

\* Table::add_row: pushes the row, whatever its columns
TableAddRow(t, row) == [t EXCEPT !.data = Append(@, row)]

\* Table::parameters_to_structure: HashMap column name -> cell type, as the
\* set of its entries; a column of another type panics
parameters_to_structure(params) ==
    IF \E i \in 1..Len(params) : params[i][1].tag \notin {"Bool", "Int", "String", "Double"}
    THEN [ok |-> FALSE, structure |-> {}]
    ELSE [ok |-> TRUE,
          structure |-> {<<params[i][2], params[i][1].tag>> : i \in 1..Len(params)}]

\* TableCell -> ExpressionValue, the inner match of Row::get
CellToValue(c) == IF c.tag = "Int" THEN Number(c.v) ELSE Bool(c.v)

\* Row::get: the first cell named column_name, or a panic
RowGet(row, column_name) ==
    LET hits == {i \in 1..Len(row) : row[i][1] = column_name}
    IN IF hits = {} THEN [ok |-> FALSE, val |-> Null]
       ELSE [ok |-> TRUE,
             val |-> CellToValue(row[CHOOSE i \in hits : \A j \in hits : i <= j][2])]

\* Display of a cell value by "{}"
ShowCell(c) == IF c.tag = "Int" THEN ToString(c.v) ELSE IF c.v THEN "true" ELSE "false"

\* Row::print: one print! per cell, then println!(); each call is one write
RowPrint(row) ==
    [i \in 1..Len(row) |-> row[i][1] \o ": " \o ShowCell(row[i][2]) \o ", "] \o <<"\n">>

RECURSIVE ConcatAll(_)
\* concatenation of a sequence of sequences
ConcatAll(ss) == IF ss = <<>> THEN <<>> ELSE Head(ss) \o ConcatAll(Tail(ss))

\* Table::print: every row in order
TablePrint(t) == ConcatAll([i \in 1..Len(t.data) |-> RowPrint(t.data[i])])

\* Table::get_column
TableGetColumn(t, column_name) ==
    IF \E i \in 1..Len(t.data) : ~RowGet(t.data[i], column_name).ok
    THEN [ok |-> FALSE, val |-> Null]
    ELSE [ok |-> TRUE,
          val |-> ArrayV([i \in 1..Len(t.data) |-> RowGet(t.data[i], column_name).val])]

-----------------------------------------------------------------------------
(* Library (src/src/backend/library.rs).  A library call maps the heap and  *)
(* stdout to [heap, out, err, val].                                         *)

RECURSIVE PrintValue(_, _)
\* the writes of wrench_print for one argument
PrintValue(arg, heap) ==
    CASE arg.tag = "Number" -> <<ToString(arg.v) \o "\n">>
      [] arg.tag = "Bool" -> <<(IF arg.v THEN "true" ELSE "false") \o "\n">>
      [] arg.tag = "String" -> <<arg.v \o "\n">>
      [] arg.tag = "Null" -> <<"Null\n">>
      [] arg.tag = "Row" -> RowPrint(arg.v)
      [] arg.tag = "Table" -> TablePrint(heap[arg.v])
      [] arg.tag = "Array" ->
            ConcatAll([i \in 1..Len(arg.v) |-> PrintValue(arg.v[i], heap)])

\* wrench_print: prints every argument, returns Null
wrench_print(args, heap, out) ==
    [heap |-> heap,
     out |-> out \o ConcatAll([i \in 1..Len(args) |-> PrintValue(args[i], heap)]),
     err |-> "", val |-> Null]

\* a table_add_row that adds the row to a copy of the table, in a cell of its
\* own, and leaves the table it was given as it is
wrench_table_add_row_to_copy(args, heap, out) ==
    IF Len(args) < 2 \/ args[1].tag # "Table" \/ args[2].tag # "Row"
    THEN [heap |-> heap, out |-> out, err |-> "Expected a table and a row", val |-> Null]
    ELSE [heap |-> Append(heap, TableAddRow(heap[args[1].v], args[2].v)),
          out |-> out, err |-> "", val |-> Null]

\* wrench_table_add_row: args[0] must be a table, args[1] a row; borrow_mut
\* panics while a borrow() guard of the table is alive
wrench_table_add_row(args, heap, out) ==
    IF Len(args) < 1 THEN [heap |-> heap, out |-> out, err |-> "index out of bounds", val |-> Null]
    ELSE IF args[1].tag # "Table"
    THEN [heap |-> heap, out |-> out, err |-> "Expected a table", val |-> Null]
    ELSE IF Len(args) < 2 THEN [heap |-> heap, out |-> out, err |-> "index out of bounds", val |-> Null]
    ELSE IF args[2].tag # "Row"
    THEN [heap |-> heap, out |-> out, err |-> "Expected a row", val |-> Null]
    ELSE IF heap[args[1].v].readers > 0
    THEN [heap |-> heap, out |-> out, err |-> "already borrowed", val |-> Null]
    ELSE [heap |-> [heap EXCEPT ![args[1].v] = TableAddRow(@, args[2].v)],
          out |-> out, err |-> "", val |-> Null]

\* The files import_csv can open: the header line and the records of each.
\* "rows.csv" does not exist.
Files == [name \in {"data.csv"} |->
             [headers |-> <<"id", "v">>, records |-> << <<"7", "70">> >>]]

\* str::parse::<i32>() on the fields the files hold; None for Err
ParseI32(value) ==
    CASE value = "7" -> <<7>>
      [] value = "70" -> <<70>>
      [] OTHER -> None

\* the row import_csv builds from one record: one cell per column of the
\* structure, found through the header line; the columns are taken in the
\* order of the header line (the code takes them in the HashMap's order)
CsvRow(headers, record, structure) ==
    LET cols == {i \in 1..Len(headers) : \E c \in structure : c[1] = headers[i]}
        nth(k) == CHOOSE i \in cols : Cardinality({j \in cols : j <= i}) = k
        ty(i) == (CHOOSE c \in structure : c[1] = headers[i])[2]
        value(i) == IF i <= Len(record) THEN record[i] ELSE ""
    IN IF \E c \in structure : \A i \in 1..Len(headers) : headers[i] # c[1]
       THEN [ok |-> FALSE, row |-> <<>>, err |-> "CSV file is missing column"]
       ELSE IF \E i \in cols : ty(i) # "Int" \/ ParseI32(value(i)) = None
       THEN [ok |-> FALSE, row |-> <<>>, err |-> "called unwrap() on an Err value"]
       ELSE [ok |-> TRUE, err |-> "",
             row |-> [k \in 1..Cardinality(cols) |->
                         <<headers[nth(k)], CInt(ParseI32(value(nth(k)))[1])>>]]

\* import_csv: opens the file and hands every record, as a row, to the
\* callback; [ok, rows, err] with the rows handed over
import_csv(name, structure) ==
    IF name \notin DOMAIN Files THEN [ok |-> FALSE, rows |-> <<>>, err |-> "Failed to open file"]
    ELSE LET f == Files[name]
             row(i) == CsvRow(f.headers, f.records[i], structure)
             bad == {i \in 1..Len(f.records) : ~row(i).ok}
         IN IF bad # {}
            THEN [ok |-> FALSE, rows |-> <<>>,
                  err |-> row(CHOOSE i \in bad : \A j \in bad : i <= j).err]
            ELSE [ok |-> TRUE, rows |-> [i \in 1..Len(f.records) |-> row(i).row],
                  err |-> ""]

\* wrench_import: args[0] must be a string and args[1] a table, which is
\* mutably borrowed while the file is read; every row read is added to the
\* table, and the value returned is args[1] itself
wrench_import(args, heap, out) ==
    LET failed(msg) == [heap |-> heap, out |-> out, err |-> msg, val |-> Null]
    IN IF Len(args) < 1 THEN failed("index out of bounds")
       ELSE IF args[1].tag # "String" THEN failed("First argument must be a string")
       ELSE IF Len(args) < 2 THEN failed("index out of bounds")
       ELSE IF args[2].tag # "Table" THEN failed("Second argument must be a table")
       ELSE IF heap[args[2].v].readers > 0 THEN failed("already borrowed")
       ELSE LET r == import_csv(args[1].v, heap[args[2].v].structure)
            IN IF ~r.ok THEN failed(r.err)
               ELSE [heap |-> [heap EXCEPT ![args[2].v].data = @ \o r.rows],
                     out |-> out, err |-> "", val |-> args[2]]

-----------------------------------------------------------------------------
(* evaluate_operation (evaluate.rs:421-518) on Number, Bool and String      *)
(* operands                                                                 *)

Abs(i) == IF i < 0 THEN -i ELSE i
\* i32 division and remainder truncate toward zero
TruncDiv(l, r) ==
    IF (l < 0) = (r < 0) THEN Abs(l) \div Abs(r) ELSE -(Abs(l) \div Abs(r))
TruncRem(l, r) == l - r * TruncDiv(l, r)

RECURSIVE Pow(_, _)
Pow(l, r) == IF r <= 0 THEN 1 ELSE l * Pow(l, r - 1)

evaluate_operation(left, operator, right) ==
    LET nn == left.tag = "Number" /\ right.tag = "Number"
        bb == left.tag = "Bool" /\ right.tag = "Bool"
        ss == left.tag = "String" /\ right.tag = "String"
        bad == [ok |-> FALSE, val |-> Null]
        good(v) == [ok |-> TRUE, val |-> v]
    IN CASE operator = "Addition" /\ nn -> good(Number(left.v + right.v))
         [] operator = "Addition" /\ ss -> good(StringV(left.v \o right.v))
         [] operator = "Subtraction" /\ nn -> good(Number(left.v - right.v))
         [] operator = "Multiplication" /\ nn -> good(Number(left.v * right.v))
         [] operator = "Division" /\ nn ->
                IF right.v = 0 THEN bad ELSE good(Number(TruncDiv(left.v, right.v)))
         [] operator = "Modulo" /\ nn ->
                IF right.v = 0 THEN bad ELSE good(Number(TruncRem(left.v, right.v)))
         [] operator = "Exponent" /\ nn -> good(Number(Pow(left.v, right.v)))
         [] operator = "LessThan" /\ nn -> good(Bool(left.v < right.v))
         [] operator = "LessThanOrEqual" /\ nn -> good(Bool(left.v <= right.v))
         [] operator = "Equals" /\ (nn \/ bb \/ ss) -> good(Bool(left.v = right.v))
         [] operator = "Or" /\ bb -> good(Bool(left.v \/ right.v))
         [] OTHER -> bad

-----------------------------------------------------------------------------
(* Evaluator (src/src/backend/evaluate.rs), big-step.  The evaluator state  *)
(* is st = [env, heap, out, err]: the scope stack, the Rc<RefCell<Table>>   *)
(* cells allocated so far, the writes made to stdout, and the panic message *)
(* ("" while no panic was raised).  fuel bounds the number of nested calls  *)
(* and loop iterations; running out of fuel is err = "fuel" (the run has no *)
(* exit).  Two history fields record what the code keeps no trace of:       *)
(* consts, the names of the current environment whose cell was added by a   *)
(* Declaration::Constant, and overwritten, the names among them that        *)
(* env_update has since been applied to with success.                       *)

Panic(st, msg) == [st EXCEPT !.err = msg]
StmtNone == [tag |-> "None"]
StmtReturn(val) == [tag |-> "Return", v |-> val]

\* WrenchFunction::get_closure_as_env: a one-scope environment holding the
\* captured functions; [ok, env]
RECURSIVE AddFunctions(_, _)
AddFunctions(e, fs) ==
    IF fs = <<>> THEN [ok |-> TRUE, env |-> e, err |-> ""]
    ELSE LET r == env_add(e, Function(Head(fs)))
         IN IF r.ok THEN AddFunctions(r.env, Tail(fs)) ELSE r

\* an environment for the body that holds none of the captured functions
get_empty_env(f) == [ok |-> TRUE, env |-> env_expand_scope(env_new), err |-> ""]

get_closure_as_env(f) == AddFunctions(env_expand_scope(env_new), f.closure)

\* env_to_closure: every function cell of the stack, outermost scope first
env_to_closure(e) ==
    LET cells == ConcatAll(e)
    IN [i \in 1..Cardinality({j \in 1..Len(cells) : cells[j].tag = "Function"}) |->
          LET k == CHOOSE k \in 1..Len(cells) :
                       /\ cells[k].tag = "Function"
                       /\ Cardinality({j \in 1..k : cells[j].tag = "Function"}) = i
          IN cells[k].f]

\* the zip loop of evaluate_function_call / evaluate_custom_function_call:
\* binds parameter i to argument i while both exist
RECURSIVE BindParameters(_, _, _)
BindParameters(e, params, args) ==
    IF params = <<>> \/ args = <<>> THEN [ok |-> TRUE, env |-> e, err |-> ""]
    ELSE LET r == env_add(e, Variable(Head(params)[2], Head(args)))
         IN IF r.ok THEN BindParameters(r.env, Tail(params), Tail(args)) ELSE r

\* evaluate_statement and evaluate_expression call each other, directly and
\* through function calls: every such call goes through the one recursive
\* operator Eval, which applies the function its first argument names
RECURSIVE Eval(_, _, _, _)
Statement(statement, st, fuel) == Eval("evaluate_statement", statement, st, fuel)
Expression(expression, st, fuel) == Eval("evaluate_expression", expression, st, fuel)

RECURSIVE EvalList(_, _, _)
RECURSIVE EvalRow(_, _, _)
RECURSIVE ForLoop(_, _, _, _, _, _)
RECURSIVE WhileLoop(_, _, _, _)

\* evaluate_custom_function_call: the body runs in a fresh environment made
\* of the closure, the bound parameters and the function itself; the caller's
\* environment is not touched
evaluate_custom_function_call(function, args, st, fuel) ==
    IF fuel = 0 THEN [st |-> Panic(st, "fuel"), val |-> Null]
    ELSE
    LET c == get_closure_as_env(function)
        b == BindParameters(c.env, function.parameters, args)
        s == env_add(b.env, Function(function))
        returned(r) == [st |-> [r.st EXCEPT !.env = st.env, !.consts = st.consts],
                        val |-> IF r.ret.tag = "Return" THEN r.ret.v ELSE Null]
    IN IF ~c.ok THEN [st |-> Panic(st, c.err), val |-> Null]
       ELSE IF ~b.ok THEN [st |-> Panic(st, b.err), val |-> Null]
       ELSE IF ~s.ok THEN [st |-> Panic(st, s.err), val |-> Null]
       ELSE returned(Statement(function.body,
                               [st EXCEPT !.env = s.env, !.consts = {}], fuel - 1))

\* evaluate_function_call: library names first, then a function of the
\* environment
evaluate_function_call(name, args, st, fuel) ==
    LET lib(r) == [st |-> [st EXCEPT !.heap = r.heap, !.out = r.out, !.err = r.err],
                   val |-> r.val]
    IN CASE name = "print" -> lib(wrench_print(args, st.heap, st.out))
         [] name = "table_add_row" -> lib(wrench_table_add_row(args, st.heap, st.out))
         [] name = "import" -> lib(wrench_import(args, st.heap, st.out))
         [] OTHER ->
              LET function == env_get(st.env, name)
              IN IF ~function.ok THEN [st |-> Panic(st, function.err), val |-> Null]
                 ELSE IF function.cell.tag # "Function"
                 THEN [st |-> Panic(st, "is not a function"), val |-> Null]
                 ELSE evaluate_custom_function_call(function.cell.f, args, st, fuel)

\* the argument loops of Expr::FunctionCall and Expr::Array: left to right,
\* stopping at the first panic
EvalList(exprs, st, fuel) ==
    IF exprs = <<>> THEN [st |-> st, vals |-> <<>>]
    ELSE LET rest(h) ==
                 IF h.st.err # "" THEN [st |-> h.st, vals |-> <<>>]
                 ELSE LET t == EvalList(Tail(exprs), h.st, fuel)
                      IN [st |-> t.st, vals |-> <<h.val>> \o t.vals]
         IN rest(Expression(Head(exprs), st, fuel))

\* the loop of Expr::Row: a Number becomes an Int cell, a Bool a Bool cell,
\* any other value panics
EvalRow(cols, st, fuel) ==
    IF cols = <<>> THEN [st |-> st, row |-> <<>>]
    ELSE LET h == Expression(Head(cols)[3], st, fuel)
         IN IF h.st.err # "" THEN [st |-> h.st, row |-> <<>>]
            ELSE IF h.val.tag \notin {"Number", "Bool"}
            THEN [st |-> Panic(h.st, "Unsupported type in row assignment"), row |-> <<>>]
            ELSE LET t == EvalRow(Tail(cols), h.st, fuel)
                     cell == IF h.val.tag = "Number" THEN CInt(h.val.v) ELSE CBool(h.val.v)
                 IN [st |-> t.st, row |-> <<<<Head(cols)[2], cell>>>> \o t.row]

\* Rc::new(RefCell::new(table)): a fresh heap cell; the reference is its index
RcNew(heap, t) == [heap |-> Append(heap, t), ref |-> Len(heap) + 1]

\* evaluate_expression
evaluate_expression(expression, st, fuel) ==
    CASE expression.tag = "Null" -> [st |-> st, val |-> Null]
      [] expression.tag = "Number" -> [st |-> st, val |-> Number(expression.n)]
      [] expression.tag = "Bool" -> [st |-> st, val |-> Bool(expression.b)]
      [] expression.tag = "StringLiteral" -> [st |-> st, val |-> StringV(expression.str)]
      [] expression.tag = "Operation" ->
            LET left == Expression(expression.e1, st, fuel)
                right == Expression(expression.e2, left.st, fuel)
                r == evaluate_operation(left.val, expression.op, right.val)
            IN IF left.st.err # "" THEN [st |-> left.st, val |-> Null]
               ELSE IF right.st.err # "" THEN [st |-> right.st, val |-> Null]
               ELSE IF r.ok THEN [st |-> right.st, val |-> r.val]
               ELSE [st |-> Panic(right.st, "Unsupported operation"), val |-> Null]
      [] expression.tag = "Identifier" ->
            LET c == env_get(st.env, expression.name)
            IN IF ~c.ok THEN [st |-> Panic(st, c.err), val |-> Null]
               ELSE IF c.cell.tag = "Variable" THEN [st |-> st, val |-> c.cell.value]
               ELSE [st |-> Panic(st, "Function identifier not allowed as expression"),
                     val |-> Null]
      [] expression.tag = "FunctionCall" ->
            LET args == EvalList(expression.args, st, fuel)
            IN IF args.st.err # "" THEN [st |-> args.st, val |-> Null]
               ELSE evaluate_function_call(expression.name, args.vals, args.st, fuel)
      [] expression.tag = "Row" ->
            LET r == EvalRow(expression.cols, st, fuel)
            IN IF r.st.err # "" THEN [st |-> r.st, val |-> Null]
               ELSE [st |-> r.st, val |-> RowV(r.row)]
      [] expression.tag = "Table" ->
            LET ps == parameters_to_structure(expression.params)
                rc == RcNew(st.heap, TableNew(ps.structure))
            IN IF ~ps.ok
               THEN [st |-> Panic(st, "Unsupported type in table declaration"), val |-> Null]
               ELSE [st |-> [st EXCEPT !.heap = rc.heap], val |-> TableV(rc.ref)]
      [] expression.tag = "Not" ->
            LET r == Expression(expression.e, st, fuel)
            IN IF r.st.err # "" THEN [st |-> r.st, val |-> Null]
               ELSE IF r.val.tag = "Bool" THEN [st |-> r.st, val |-> Bool(~r.val.v)]
               ELSE [st |-> Panic(r.st, "Not operator can only be applied to boolean values"),
                     val |-> Null]
      [] expression.tag = "ColumnIndexing" ->
            LET r == Expression(expression.e, st, fuel)
                g == IF r.val.tag = "Row" THEN RowGet(r.val.v, expression.col)
                     ELSE TableGetColumn(r.st.heap[r.val.v], expression.col)
            IN IF r.st.err # "" THEN [st |-> r.st, val |-> Null]
               ELSE IF r.val.tag \notin {"Row", "Table"}
               THEN [st |-> Panic(r.st, "Column indexing can only be applied to rows or tables"),
                     val |-> Null]
               ELSE IF g.ok THEN [st |-> r.st, val |-> g.val]
               ELSE [st |-> Panic(r.st, "Column name not found in row"), val |-> Null]
      [] expression.tag = "Array" ->
            LET r == EvalList(expression.elems, st, fuel)
            IN IF r.st.err # "" THEN [st |-> r.st, val |-> Null]
               ELSE [st |-> r.st, val |-> ArrayV(r.vals)]
      [] OTHER -> [st |-> Panic(st, "expression not modelled"), val |-> Null]

\* evaluate_declaration: var and const declarations add the same kind of
\* cell; a function declaration captures the functions visible so far
evaluate_declaration(declaration, st, fuel) ==
    IF declaration.tag \in {"Variable", "Constant"}
    THEN LET r == Expression(declaration.e, st, fuel)
             a == env_add(r.st.env, Variable(declaration.name, r.val))
         IN IF r.st.err # "" THEN r.st
            ELSE IF a.ok
            THEN [r.st EXCEPT !.env = a.env,
                              !.consts = IF declaration.tag = "Constant"
                                         THEN @ \cup {declaration.name}
                                         ELSE @ \ {declaration.name}]
            ELSE Panic(r.st, a.err)
    ELSE LET closure == env_to_closure(st.env)
             a == env_add(st.env, Function(WrenchFunction(declaration.ty, declaration.name,
                                   declaration.params, declaration.body, closure)))
         IN IF a.ok THEN [st EXCEPT !.env = a.env] ELSE Panic(st, a.err)

\* one iteration and the rest of the for loops of Statement::For, over the
\* elements items[i..]
ForLoop(items, i, n, body, st, fuel) ==
    IF i > Len(items) THEN [st |-> st, ret |-> StmtNone]
    ELSE LET a == env_add(env_expand_scope(st.env), Variable(n, items[i]))
             r == Statement(body, [st EXCEPT !.env = a.env, !.consts = @ \ {n}], fuel)
         IN IF ~a.ok THEN [st |-> Panic([st EXCEPT !.env = a.env], a.err), ret |-> StmtNone]
            ELSE IF r.st.err # "" THEN r
            ELSE IF r.ret.tag = "Return"
            THEN [st |-> [r.st EXCEPT !.env = env_shrink_scope(@)], ret |-> r.ret]
            ELSE ForLoop(items, i + 1, n, body, [r.st EXCEPT !.env = env_shrink_scope(@)], fuel)

\* the loop of Statement::While: the condition is evaluated, then a scope is
\* pushed, and every way out of the iteration pops it
WhileLoop(e, body, st, fuel) ==
    IF fuel = 0 THEN [st |-> Panic(st, "fuel"), ret |-> StmtNone]
    ELSE
    LET condition == Expression(e, st, fuel)
        pushed == [condition.st EXCEPT !.env = env_expand_scope(@)]
        r == Statement(body, pushed, fuel)
    IN IF condition.st.err # "" THEN [st |-> condition.st, ret |-> StmtNone]
       ELSE IF condition.val.tag = "Bool" /\ condition.val.v
       THEN IF r.st.err # "" THEN r
            ELSE IF r.ret.tag = "Return"
            THEN [st |-> [r.st EXCEPT !.env = env_shrink_scope(@)], ret |-> r.ret]
            ELSE WhileLoop(e, body, [r.st EXCEPT !.env = env_shrink_scope(@)], fuel - 1)
       ELSE IF condition.val.tag = "Bool" /\ ~condition.val.v
       THEN [st |-> [pushed EXCEPT !.env = env_shrink_scope(@)], ret |-> StmtNone]
       ELSE [st |-> Panic(pushed, "Condition is not a boolean"), ret |-> StmtNone]

\* a loop that holds no borrow of the table it iterates
BorrowNothing(heap, ref) == heap

\* RefCell::borrow() on heap cell ref and the drop of its guard
Borrow(heap, ref) == [heap EXCEPT ![ref].readers = @ + 1]
Release(heap, ref) == [heap EXCEPT ![ref].readers = @ - 1]

\* evaluate_statement
evaluate_statement(statement, st, fuel) ==
    CASE statement.tag = "Declaration" ->
            [st |-> evaluate_declaration(statement.decl, st, fuel), ret |-> StmtNone]
      [] statement.tag = "Expr" ->
            [st |-> Expression(statement.e, st, fuel).st, ret |-> StmtNone]
      [] statement.tag = "VariableAssignment" ->
            LET r == Expression(statement.e, st, fuel)
                u == env_update(r.st.env, statement.name, r.val)
            IN IF r.st.err # "" THEN [st |-> r.st, ret |-> StmtNone]
               ELSE IF u.ok
               THEN [st |-> [r.st EXCEPT !.env = u.env,
                                         !.overwritten = @ \cup ({statement.name} \cap r.st.consts)],
                     ret |-> StmtNone]
               ELSE [st |-> Panic(r.st, u.err), ret |-> StmtNone]
      [] statement.tag = "Compound" ->
            LET s1v == Statement(statement.s1, st, fuel)
            IN IF s1v.st.err # "" \/ s1v.ret.tag = "Return" THEN s1v
               ELSE Statement(statement.s2, s1v.st, fuel)
      [] statement.tag = "Skip" -> [st |-> st, ret |-> StmtNone]
      [] statement.tag = "Return" ->
            LET r == Expression(statement.e, st, fuel)
            IN IF r.st.err # "" THEN [st |-> r.st, ret |-> StmtNone]
               ELSE [st |-> r.st, ret |-> StmtReturn(r.val)]
      [] statement.tag = "If" ->
            LET condition == Expression(statement.cond, st, fuel)
            IN IF condition.st.err # "" THEN [st |-> condition.st, ret |-> StmtNone]
               ELSE IF condition.val.tag = "Bool" /\ condition.val.v
               THEN Statement(statement.s1, condition.st, fuel)
               ELSE IF condition.val.tag = "Bool" /\ ~condition.val.v
               THEN Statement(statement.s2, condition.st, fuel)
               ELSE [st |-> Panic(condition.st, "Condition is not a boolean"), ret |-> StmtNone]
      [] statement.tag = "For" ->
            LET iterator == Expression(statement.e, st, fuel)
                n == statement.param[2]
            IN IF iterator.st.err # "" THEN [st |-> iterator.st, ret |-> StmtNone]
               ELSE IF iterator.val.tag = "Table"
               THEN LET ref == iterator.val.v
                        held == [iterator.st EXCEPT !.heap = Borrow(@, ref)]
                        r == ForLoop([i \in 1..Len(held.heap[ref].data) |->
                                         RowV(held.heap[ref].data[i])],
                                     1, n, statement.body, held, fuel)
                    IN IF r.st.err # "" THEN r
                       ELSE [st |-> [r.st EXCEPT !.heap = Release(@, ref)], ret |-> r.ret]
               ELSE IF iterator.val.tag = "Array"
               THEN ForLoop(iterator.val.v, 1, n, statement.body, iterator.st, fuel)
               ELSE [st |-> Panic(iterator.st, "For loop iterator is not a table"),
                     ret |-> StmtNone]
      [] statement.tag = "While" -> WhileLoop(statement.cond, statement.body, st, fuel)

Eval(f, x, st, fuel) ==
    CASE f = "evaluate_statement" -> evaluate_statement(x, st, fuel)
      [] f = "evaluate_expression" -> evaluate_expression(x, st, fuel)

-----------------------------------------------------------------------------
(* Type checker (src/src/frontend/typecheck.rs).  A scope is a function     *)
(* from names to VariableInfo (a HashMap), the scope stack a sequence of    *)
(* scopes, innermost last.  A Result is a record with ok = TRUE for Ok and  *)
(* ok = FALSE and the message for Err; a panic of the checker is an Err     *)
(* here, as both end the run before the evaluator.  Expr::Indexing is not   *)
(* modelled.                                                                *)

TDouble == [tag |-> "Double"]
TString == [tag |-> "String"]
TAny == [tag |-> "Any"]
TArray(t) == [tag |-> "Array", elem |-> t]
TFunction(ret, params) == [tag |-> "Function", ret |-> ret, params |-> params]
EDouble(d) == [tag |-> "Double", d |-> d]

VariableInfo(var_type, is_constant) == [var_type |-> var_type, is_constant |-> is_constant]

\* HashMap::insert
Insert(scope, name, info) ==
    [n \in (DOMAIN scope) \cup {name} |-> IF n = name THEN info ELSE scope[n]]

\* a lookup_variable that forgets that a name is constant
lookup_variable_as_variable(name, scope_stack) ==
    LET holds == {i \in 1..Len(scope_stack) : name \in DOMAIN scope_stack[i]}
    IN IF holds = {} THEN None
       ELSE LET i == CHOOSE i \in holds : \A j \in holds : j <= i
            IN <<[scope_stack[i][name] EXCEPT !.is_constant = FALSE]>>

\* lookup_variable: the innermost scope that holds the name answers; None,
\* or <<info>> for Some(info)
lookup_variable(name, scope_stack) ==
    LET holds == {i \in 1..Len(scope_stack) : name \in DOMAIN scope_stack[i]}
    IN IF holds = {} THEN None
       ELSE LET i == CHOOSE i \in holds : \A j \in holds : j <= i
            IN <<scope_stack[i][name]>>

push_scope(scope_stack) == Append(scope_stack, <<>>)
pop_scope(scope_stack) ==
    IF Len(scope_stack) = 0 THEN scope_stack ELSE SubSeq(scope_stack, 1, Len(scope_stack) - 1)

Ok(t) == [ok |-> TRUE, ty |-> t, err |-> ""]
Err(msg) == [ok |-> FALSE, ty |-> TNull, err |-> msg]

RECURSIVE infer_type(_, _)

\* the cast rule of check_and_cast_type, on the two types
CastAllowed(expected, found) ==
    IF expected = TDouble /\ found = TInt THEN TRUE
    ELSE IF expected = TInt /\ found = TDouble THEN FALSE
    ELSE expected = found

\* check_and_cast_type
check_and_cast_type(expected_type, expr, scope_stack) ==
    LET cast(typed_expr) ==
            IF ~typed_expr.ok THEN typed_expr
            ELSE IF CastAllowed(expected_type.var_type, typed_expr.ty) THEN typed_expr
            ELSE IF expected_type.var_type = TInt /\ typed_expr.ty = TDouble
            THEN Err("Cannot implicitly cast Double to Int")
            ELSE Err("Type mismatch")
    IN cast(infer_type(expr, scope_stack))

\* infer_type, Expr::Operation, once both operands have a type
InferOperation(expr, left_typed, right_typed) ==
    LET l == left_typed.ty
        r == right_typed.ty
        op == expr.op
    IN IF ~CastAllowed(r, l)
       THEN (IF r = TInt /\ l = TDouble THEN Err("Cannot implicitly cast Double to Int")
             ELSE Err("Type mismatch"))
       ELSE IF ~CastAllowed(l, r)
       THEN (IF l = TInt /\ r = TDouble THEN Err("Cannot implicitly cast Double to Int")
             ELSE Err("Type mismatch"))
       ELSE IF l.tag \in {"Row", "Table"} \/ r.tag \in {"Row", "Table"}
       THEN Err("Operation on Row or Table types is not allowed")
       ELSE IF ~(l \in {TInt, TDouble} /\ r \in {TInt, TDouble})
       THEN Err("Operation on incompatible types")
       ELSE LET result_type == IF l = TInt /\ r = TInt THEN TInt ELSE TDouble
            IN CASE op \in {"Equals", "LessThan", "LessThanOrEqual"} -> Ok(TBool)
                 [] op \in {"Addition", "Subtraction", "Multiplication", "Division",
                             "Modulo", "Exponent"} ->
                       IF op = "Division" /\ (expr.e2 = ENumber(0) \/ expr.e2 = EDouble("0.0"))
                       THEN Err("Division by zero is not allowed")
                       ELSE Ok(result_type)
                 [] op = "Or" ->
                       IF l = TBool /\ r = TBool THEN Ok(TBool)
                       ELSE Err("Logical operators require boolean operands")
                 [] OTHER -> Err("operator not modelled")

\* infer_type, Expr::Array: every element has the type of the first
RECURSIVE InferElements(_, _, _)
InferElements(elements, first, scope_stack) ==
    IF elements = <<>> THEN Ok(TArray(first))
    ELSE LET next(t) == IF ~t.ok THEN t
                        ELSE IF t.ty # first
                        THEN Err("Array elements must have the same type")
                        ELSE InferElements(Tail(elements), first, scope_stack)
         IN next(infer_type(Head(elements), scope_stack))

\* infer_type, Expr::FunctionCall: the loop over the arguments (i counts
\* from 0 as enumerate() does)
RECURSIVE InferArguments(_, _, _, _, _)
InferArguments(name, args, param_types, i, scope_stack) ==
    IF i >= Len(args) \/ i >= Len(param_types) THEN Ok(TNull)
    ELSE LET param_type == param_types[i + 1]
             next(arg_typed) ==
                IF ~arg_typed.ok THEN arg_typed
                ELSE IF /\ name \in {"import", "async_import"} /\ i = 1
                        /\ param_type.tag = "Table" /\ arg_typed.ty.tag = "Table"
                THEN InferArguments(name, args, param_types, i + 1, scope_stack)
                ELSE IF param_type # TAny /\ arg_typed.ty # param_type
                THEN Err("Type mismatch in function call")
                ELSE InferArguments(name, args, param_types, i + 1, scope_stack)
         IN next(infer_type(args[i + 1], scope_stack))

\* infer_type, Expr::Row: every column holds a value of its declared type
RECURSIVE InferColumns(_, _, _)
InferColumns(columns, param_types, scope_stack) ==
    IF columns = <<>> THEN Ok(TRow(param_types))
    ELSE LET c == Head(columns)
             next(typed_expr) ==
                IF ~typed_expr.ok THEN typed_expr
                ELSE IF c[1] # typed_expr.ty THEN Err("Type mismatch for column")
                ELSE InferColumns(Tail(columns), Append(param_types, <<c[1], c[2]>>),
                                  scope_stack)
         IN next(infer_type(c[3], scope_stack))

\* infer_type, Expr::Pipe, once the piped expression has a type: the shapes
\* a pipe step may have
InferPipe(expr, input_type, scope_stack) ==
    LET func_type == lookup_variable(expr.name, scope_stack)
    IN IF func_type = None THEN Err("Undefined pipe function")
       ELSE IF func_type[1].var_type.tag # "Function" THEN Err("not a valid pipe function")
       ELSE
       LET return_type == func_type[1].var_type.ret
           param_types == func_type[1].var_type.params
           effective_args == IF expr.args = <<>> /\ Len(param_types) = 1
                             THEN <<expr.e>> ELSE expr.args
       IN IF Len(effective_args) # Len(param_types)
          THEN Err("Pipe function expected another number of arguments")
          ELSE IF input_type.tag = "Row" /\ return_type.tag = "Bool" /\ param_types = <<>>
          THEN Err("panic: index out of bounds")
          ELSE LET allowed ==
                      CASE input_type.tag = "Row" /\ return_type.tag = "Row" ->
                              input_type.params = return_type.params
                        [] input_type.tag = "Row" /\ return_type.tag = "Bool" ->
                              IF param_types[1].tag = "Row"
                              THEN input_type.params = param_types[1].params
                              ELSE FALSE
                        [] input_type.tag = "Table" /\ return_type.tag = "Table" ->
                              input_type.params = return_type.params
                        [] OTHER -> FALSE
               IN IF allowed THEN Ok(return_type)
                  ELSE Err("Pipe function must be one of: Row->Row, Row->Bool, Table->Table")

\* infer_type
infer_type(expr, scope_stack) ==
    CASE expr.tag = "Number" -> Ok(TInt)
      [] expr.tag = "Bool" -> Ok(TBool)
      [] expr.tag = "Double" -> Ok(TDouble)
      [] expr.tag = "StringLiteral" -> Ok(TString)
      [] expr.tag = "Null" -> Ok(TNull)
      [] expr.tag = "Identifier" ->
            LET var_info == lookup_variable(expr.name, scope_stack)
            IN IF var_info = None THEN Err("Undefined variable")
               ELSE Ok(var_info[1].var_type)
      [] expr.tag = "Operation" ->
            LET right(left_typed) ==
                    LET both(right_typed) ==
                            IF ~right_typed.ok THEN right_typed
                            ELSE InferOperation(expr, left_typed, right_typed)
                    IN IF ~left_typed.ok THEN left_typed
                       ELSE both(infer_type(expr.e2, scope_stack))
            IN right(infer_type(expr.e1, scope_stack))
      [] expr.tag = "Not" ->
            LET inner(inner_typed) ==
                    IF ~inner_typed.ok THEN inner_typed
                    ELSE IF inner_typed.ty = TBool THEN Ok(TBool)
                    ELSE Err("Logical NOT requires a boolean")
            IN inner(infer_type(expr.e, scope_stack))
      [] expr.tag = "Array" ->
            IF expr.elems = <<>> THEN Err("Cannot infer type of empty array")
            ELSE LET first(first_typed) ==
                        IF ~first_typed.ok THEN first_typed
                        ELSE InferElements(Tail(expr.elems), first_typed.ty, scope_stack)
                 IN first(infer_type(expr.elems[1], scope_stack))
      [] expr.tag = "FunctionCall" ->
            LET func_type == lookup_variable(expr.name, scope_stack)
            IN IF func_type = None THEN Err("Undefined function")
               ELSE IF func_type[1].var_type.tag # "Function" THEN Err("is not a function")
               ELSE IF Len(expr.args) # Len(func_type[1].var_type.params)
               THEN Err("Function expected another number of arguments")
               ELSE LET checked(r) ==
                            IF ~r.ok THEN r
                            ELSE IF /\ expr.name \in {"import", "async_import"}
                                    /\ Len(expr.args) >= 2
                                    /\ expr.args[2].tag = "Table"
                            THEN Ok(TTable(expr.args[2].params))
                            ELSE Ok(func_type[1].var_type.ret)
                    IN checked(InferArguments(expr.name, expr.args,
                                              func_type[1].var_type.params, 0, scope_stack))
      [] expr.tag = "Pipe" ->
            LET left(left_typed) ==
                    IF ~left_typed.ok THEN left_typed
                    ELSE InferPipe(expr, left_typed.ty, scope_stack)
            IN left(infer_type(expr.e, scope_stack))
      [] expr.tag = "Table" ->
            IF \E i, j \in 1..Len(expr.params) : i # j /\ expr.params[i][2] = expr.params[j][2]
            THEN Err("Duplicate parameter name in table declaration")
            ELSE Ok(TTable(expr.params))
      [] expr.tag = "Row" -> InferColumns(expr.cols, <<>>, scope_stack)
      [] expr.tag = "ColumnIndexing" ->
            LET indexed(table_typed) ==
                    IF ~table_typed.ok THEN table_typed
                    ELSE IF table_typed.ty.tag \in {"Table", "Row"}
                    THEN LET params == table_typed.ty.params
                             hits == {i \in 1..Len(params) : params[i][2] = expr.col}
                         IN IF hits = {} THEN Err("Column not found")
                            ELSE Ok(params[CHOOSE i \in hits : \A j \in hits : i <= j][1])
                    ELSE Err("Cannot index into non-table/row type")
            IN indexed(infer_type(expr.e, scope_stack))
      [] OTHER -> Err("expression not modelled")

Checked(scope_stack) == [ok |-> TRUE, scopes |-> scope_stack, err |-> ""]
Rejected(scope_stack, msg) == [ok |-> FALSE, scopes |-> scope_stack, err |-> msg]

\* no type_check has returned yet
Unchecked == Rejected(<<>>, "unchecked")

\* scope_stack.last_mut().unwrap().insert(name, info)
InsertLast(scope_stack, name, info) ==
    [scope_stack EXCEPT ![Len(scope_stack)] = Insert(@, name, info)]

\* function scopes that keep the constants of the outermost scope next to
\* its functions
FunctionScopesWithConstants(scope_stack, params) ==
    LET outer == scope_stack[1]
        kept == {k \in DOMAIN outer : outer[k].var_type.tag = "Function"
                                          \/ outer[k].is_constant}
        names == {params[i][2] : i \in 1..Len(params)}
    IN << [k \in kept |-> outer[k]],
          [n \in names |->
              LET last == CHOOSE i \in 1..Len(params) :
                              /\ params[i][2] = n
                              /\ \A j \in 1..Len(params) : params[j][2] = n => j <= i
              IN VariableInfo(params[last][1], FALSE)] >>

\* type_check, Declaration::Function: the scopes the body is checked in, the
\* functions of the outermost scope and then the parameters
FunctionScopes(scope_stack, params) ==
    LET outer == scope_stack[1]
        functions == {k \in DOMAIN outer : outer[k].var_type.tag = "Function"}
        names == {params[i][2] : i \in 1..Len(params)}
    IN << [k \in functions |-> outer[k]],
          [n \in names |->
              LET last == CHOOSE i \in 1..Len(params) :
                              /\ params[i][2] = n
                              /\ \A j \in 1..Len(params) : params[j][2] = n => j <= i
              IN VariableInfo(params[last][1], FALSE)] >>

\* type_check, Statement::For: the type the loop variable must be declared
\* with for an iterable of this type; None when the type is not iterable
IteratorType(iterable) ==
    CASE iterable.tag = "Array" -> <<iterable.elem>>
      [] iterable.tag = "Row" -> <<iterable>>
      [] iterable.tag = "Table" -> <<TRow(iterable.params)>>
      [] OTHER -> None

RECURSIVE type_check(_, _)
type_check(statement, scope_stack) ==
    CASE statement.tag = "Skip" -> Checked(scope_stack)
      [] statement.tag = "Compound" ->
            LET second(r) == IF ~r.ok THEN r ELSE type_check(statement.s2, r.scopes)
            IN second(type_check(statement.s1, scope_stack))
      [] statement.tag = "Declaration" /\ statement.decl.tag = "Variable" ->
            LET d == statement.decl
                declared(r) ==
                    IF ~r.ok THEN Rejected(scope_stack, r.err)
                    ELSE Checked(InsertLast(scope_stack, d.name, VariableInfo(d.ty, FALSE)))
            IN declared(check_and_cast_type(VariableInfo(d.ty, FALSE), d.e, scope_stack))
      [] statement.tag = "Declaration" /\ statement.decl.tag = "Constant" ->
            LET d == statement.decl
                declared(typed_expr) ==
                    IF ~typed_expr.ok THEN Rejected(scope_stack, typed_expr.err)
                    ELSE IF d.ty # typed_expr.ty
                    THEN Rejected(scope_stack, "Type mismatch for constant")
                    ELSE Checked(InsertLast(scope_stack, d.name, VariableInfo(d.ty, TRUE)))
            IN declared(infer_type(d.e, scope_stack))
      [] statement.tag = "Declaration" /\ statement.decl.tag = "Function" ->
            LET d == statement.decl
                param_types == [i \in 1..Len(d.params) |-> d.params[i][1]]
                declared == [scope_stack EXCEPT ![1] =
                                Insert(@, d.name,
                                       VariableInfo(TFunction(d.ty, param_types), TRUE))]
                body(r) == IF ~r.ok THEN Rejected(declared, r.err) ELSE Checked(declared)
            IN body(type_check(d.body, FunctionScopes(declared, d.params)))
      [] statement.tag = "For" ->
            LET iterable(typed_iterable) ==
                    IF ~typed_iterable.ok THEN Rejected(scope_stack, typed_iterable.err)
                    ELSE
                    LET t == IteratorType(typed_iterable.ty)
                        body(r) == IF ~r.ok THEN r ELSE Checked(pop_scope(r.scopes))
                    IN IF t = None
                       THEN Rejected(scope_stack, "For-loop iterable must be an array")
                       ELSE IF statement.param[1] # t[1]
                       THEN Rejected(push_scope(scope_stack), "Type mismatch in for-loop")
                       ELSE body(type_check(statement.body,
                                            InsertLast(push_scope(scope_stack),
                                                       statement.param[2],
                                                       VariableInfo(t[1], FALSE))))
            IN iterable(infer_type(statement.e, scope_stack))
      [] statement.tag = "VariableAssignment" ->
            LET var_type == lookup_variable(statement.name, scope_stack)
                assigned(r) ==
                    IF ~r.ok THEN Rejected(scope_stack, r.err)
                    ELSE Checked(InsertLast(scope_stack, statement.name, var_type[1]))
            IN IF var_type = None THEN Rejected(scope_stack, "Undefined variable")
               ELSE IF var_type[1].is_constant
               THEN Rejected(scope_stack, "Cannot assign to constant variable")
               ELSE assigned(check_and_cast_type(var_type[1], statement.e, scope_stack))
      [] statement.tag \in {"Expr", "Return"} ->
            LET typed(r) == IF ~r.ok THEN Rejected(scope_stack, r.err)
                            ELSE Checked(scope_stack)
            IN typed(infer_type(statement.e, scope_stack))
      [] statement.tag = "If" ->
            LET else_body(r) == IF ~r.ok THEN r ELSE Checked(pop_scope(r.scopes))
                body(r) == IF ~r.ok THEN r
                           ELSE else_body(type_check(statement.s2,
                                                     push_scope(pop_scope(r.scopes))))
                condition(typed_condition) ==
                    IF ~typed_condition.ok THEN Rejected(scope_stack, typed_condition.err)
                    ELSE IF typed_condition.ty # TBool
                    THEN Rejected(scope_stack, "If condition must be a boolean")
                    ELSE body(type_check(statement.s1, push_scope(scope_stack)))
            IN condition(infer_type(statement.cond, scope_stack))
      [] statement.tag = "While" ->
            LET body(r) == IF ~r.ok THEN r ELSE Checked(pop_scope(r.scopes))
                condition(typed_condition) ==
                    IF ~typed_condition.ok THEN Rejected(scope_stack, typed_condition.err)
                    ELSE IF typed_condition.ty # TBool
                    THEN Rejected(scope_stack, "While condition must be a boolean")
                    ELSE body(type_check(statement.body, push_scope(scope_stack)))
            IN condition(infer_type(statement.cond, scope_stack))

\* create_global_environment: the built-in functions
create_global_environment ==
    [n \in {"print", "import", "async_import", "table_add_row"} |->
        CASE n = "print" -> VariableInfo(TFunction(TTable(<<>>), <<TAny>>), FALSE)
          [] n = "import" ->
                VariableInfo(TFunction(TTable(<<>>), <<TString, TTable(<<>>)>>), FALSE)
          [] n = "async_import" ->
                VariableInfo(TFunction(TTable(<<>>), <<TString, TAny>>), FALSE)
          [] n = "table_add_row" -> VariableInfo(TFunction(TNull, <<TAny, TAny>>), FALSE)]

-----------------------------------------------------------------------------
(* Environment machine: the operations of environment.rs applied in any    *)
(* order to one scope stack, as the unit tests of environment.rs do.  A     *)
(* panic ends the run.                                                      *)

MaxDepth == 3

EnvNames == {"x", "y", "f"}
EnvValues == {Number(0), Number(1)}

\* dummy_function of the tests of environment.rs
dummy_function(name) == WrenchFunction(TInt, name, <<>>, SSkip, <<>>)

EnvCells == {Variable(n, Number(0)) : n \in EnvNames}
                \cup {Function(dummy_function(n)) : n \in EnvNames}

EnvIdle == env = env_new /\ envStatus = "idle" /\ envLast = [op |-> "none", name |-> ""]

EnvInit == env = env_new /\ envStatus = "ok" /\ envLast = [op |-> "new", name |-> ""]

EnvExpandScope ==
    /\ envStatus = "ok"
    /\ Len(env) < MaxDepth
    /\ env' = env_expand_scope(env)
    /\ envLast' = [op |-> "expand", name |-> ""]
    /\ UNCHANGED <<envStatus, evalVars, pipeVars>>

EnvShrinkScope ==
    /\ envStatus = "ok"
    /\ env' = env_shrink_scope(env)
    /\ envLast' = [op |-> "shrink", name |-> ""]
    /\ UNCHANGED <<envStatus, evalVars, pipeVars>>

EnvAdd ==
    /\ envStatus = "ok"
    /\ \E declaration \in EnvCells :
          LET r == env_add(env, declaration)
          IN /\ env' = r.env
             /\ envStatus' = IF r.ok THEN "ok" ELSE "panic"
             /\ envLast' = [op |-> "add", name |-> CellName(declaration)]
    /\ UNCHANGED <<evalVars, pipeVars>>

EnvUpdate ==
    /\ envStatus = "ok"
    /\ \E name \in EnvNames, expression \in EnvValues :
          LET r == env_update(env, name, expression)
          IN /\ env' = r.env
             /\ envStatus' = IF r.ok THEN "ok" ELSE "panic"
             /\ envLast' = [op |-> "update", name |-> name, value |-> expression]
    /\ UNCHANGED <<evalVars, pipeVars>>

-----------------------------------------------------------------------------
(* Statement machine: interpret() applied to one statement of a bounded     *)
(* family, in an environment where "x" is declared.                         *)

MaxFuel == 4

X == EIdentifier("x")
Conds == {EBool(TRUE), EBool(FALSE),
          EOperation(X, "LessThan", ENumber(1)), EOperation(X, "LessThan", ENumber(2))}
Leaves == {SSkip,
           SAssign("x", EOperation(X, "Addition", ENumber(1))),
           SReturn(X),
           SDeclaration(DVariable(TInt, "y", ENumber(0))),
           SAssign("z", ENumber(0))}
Arrays == {EArray(<<>>), EArray(<<ENumber(1), ENumber(2)>>)}

Loops(bodies) ==
    {SWhile(c, b) : c \in Conds, b \in bodies}
        \cup {SFor(<<TInt, "i">>, a, b) : a \in Arrays, b \in bodies}
Ifs(bodies) == {SIf(c, b1, b2) : c \in Conds, b1 \in bodies, b2 \in bodies}

Inner == Loops(Leaves) \cup Ifs({SSkip, SReturn(X), SDeclaration(DVariable(TInt, "y", ENumber(0)))})
\* a constant declared and then assigned to, directly or in a branch
ConstUpdates ==
    {SCompound(SDeclaration(DConstant(TInt, "c", ENumber(1))), s) :
        s \in {SAssign("c", ENumber(2)), SAssign("x", EIdentifier("c")),
               SIf(EBool(TRUE), SAssign("c", X), SSkip)}}

\* the bodies of the function f(int p) of the programs about calls
P == EIdentifier("p")
CallBody(which) ==
    CASE which = "param" -> SReturn(EOperation(P, "Addition", ENumber(1)))
      \* return x;                     (x is a variable of the caller)
      [] which = "caller" -> SReturn(X)
      \* x = 5; return p;
      [] which = "assign" -> SCompound(SAssign("x", ENumber(5)), SReturn(P))
      \* var int x = 9; return x;
      [] which = "redeclare" ->
            SCompound(SDeclaration(DVariable(TInt, "x", ENumber(9))), SReturn(X))
      \* p = 3; return p;
      [] which = "setparam" -> SCompound(SAssign("p", ENumber(3)), SReturn(P))
      \* if (p < 1) { return f(p + 1); } else { return p; }
      [] which = "recurse" ->
            SIf(EOperation(P, "LessThan", ENumber(1)),
                SReturn(EFunctionCall("f", <<EOperation(P, "Addition", ENumber(1))>>)),
                SReturn(P))
      \* return h(p);
      [] which = "callh" -> SReturn(EFunctionCall("h", <<P>>))
CallBodies == {"param", "caller", "assign", "redeclare", "setparam", "recurse", "callh"}

\* fn int h(int q) { return q + 10; }
DeclareH ==
    SDeclaration(DFunction(TInt, "h", <<<<TInt, "q">>>>,
                           SReturn(EOperation(EIdentifier("q"), "Addition", ENumber(10)))))
\* fn int f(int p) { body }
DeclareF(which) == SDeclaration(DFunction(TInt, "f", <<<<TInt, "p">>>>, CallBody(which)))

\* the declarations of a program about calls: h is declared before f, after
\* f, or not at all
CallDeclarations(which, where) ==
    CASE where = "before" -> SCompound(DeclareH, DeclareF(which))
      [] where = "after" -> SCompound(DeclareF(which), DeclareH)
      [] where = "none" -> DeclareF(which)

\* <declarations>  print(f(x));
CallProgram(which, where) ==
    SCompound(CallDeclarations(which, where),
              SExpr(EFunctionCall("print", <<EFunctionCall("f", <<X>>)>>)))

CallPrograms ==
    {CallProgram(which, where) : which \in CallBodies, where \in {"before", "after", "none"}}

Programs ==
    Leaves \cup {SCompound(a, b) : a \in Leaves, b \in Leaves}
           \cup Inner \cup ConstUpdates \cup CallPrograms
           \cup Loops(Inner \cup {SCompound(l, b) : l \in Inner, b \in {SSkip, SReturn(X)}})

\* the state interpret() starts from (env_new, env_expand_scope), after the
\* declaration of x, at the top level or one scope down
StartStates ==
    {[env |-> e, heap |-> <<>>, out |-> <<>>, err |-> "",
         consts |-> {}, overwritten |-> {}] :
        e \in {<<<<Variable("x", Number(0))>>>>, <<<<Variable("x", Number(0))>>, <<>>>>}}

EvalIdle == prog = SSkip /\ est = [env |-> <<>>, heap |-> <<>>, out |-> <<>>, err |-> "",
         consts |-> {}, overwritten |-> {}]
                /\ eret = StmtNone /\ ephase = "idle" /\ verdict = Unchecked

EvalInit ==
    /\ prog \in Programs
    /\ est \in StartStates
    /\ eret = StmtNone
    /\ ephase = "ready"
    /\ verdict = Unchecked

\* interpret: evaluate_statement on the whole statement
Interpret ==
    /\ ephase = "ready"
    /\ LET r == Statement(prog, est, MaxFuel)
       IN est' = r.st /\ eret' = r.ret
    /\ ephase' = "done"
    /\ UNCHANGED <<prog, verdict, envVars, pipeVars>>

-----------------------------------------------------------------------------
(* Pipe engine (src/src/backend/pipes.rs): values crossing threads          *)

\* PipeValue::Table(Table): the table itself, not a reference
PTable(t) == [tag |-> "Table", v |-> [data |-> t.data, structure |-> t.structure]]

RECURSIVE expression_value_to_pipe_value(_, _)
\* expression_value_to_pipe_value: a table is cloned out of its cell
\* (t.borrow().clone()), every other value is moved as it is
expression_value_to_pipe_value(expr, h) ==
    CASE expr.tag = "Table" -> PTable(h[expr.v])
      [] expr.tag = "Array" ->
            ArrayV([i \in 1..Len(expr.v) |-> expression_value_to_pipe_value(expr.v[i], h)])
      [] OTHER -> expr

RECURSIVE pipe_values_to_expression_values(_, _)
RECURSIVE pipe_value_to_expression_value(_, _)

\* a conversion that hands out a cell already holding an equal table, when
\* there is one, instead of a cell of its own
pipe_value_to_shared_expression_value(expr, h) ==
    CASE expr.tag = "Table" ->
            LET same == {r \in 1..Len(h) : h[r].data = expr.v.data
                                              /\ h[r].structure = expr.v.structure}
                rc == RcNew(h, [TableNew(expr.v.structure) EXCEPT !.data = expr.v.data])
            IN IF same # {} THEN [heap |-> h, val |-> TableV(CHOOSE r \in same : TRUE)]
               ELSE [heap |-> rc.heap, val |-> TableV(rc.ref)]
      [] expr.tag = "Array" ->
            LET r == pipe_values_to_expression_values(expr.v, h)
            IN [heap |-> r.heap, val |-> ArrayV(r.vals)]
      [] OTHER -> [heap |-> h, val |-> expr]

\* a conversion that hands out, call after call, the same cell for a table
\* argument: a cell of that structure when there is one
pipe_value_to_kept_expression_value(expr, h) ==
    CASE expr.tag = "Table" ->
            LET kept == {r \in 1..Len(h) : h[r].structure = expr.v.structure}
                rc == RcNew(h, [TableNew(expr.v.structure) EXCEPT !.data = expr.v.data])
            IN IF kept # {} THEN [heap |-> h, val |-> TableV(CHOOSE r \in kept : TRUE)]
               ELSE [heap |-> rc.heap, val |-> TableV(rc.ref)]
      [] expr.tag = "Array" ->
            LET r == pipe_values_to_expression_values(expr.v, h)
            IN [heap |-> r.heap, val |-> ArrayV(r.vals)]
      [] OTHER -> [heap |-> h, val |-> expr]

\* pipe_value_to_expression_value: a table gets a cell of its own
\* (Rc::new(RefCell::new(t))); [heap, val]
pipe_value_to_expression_value(expr, h) ==
    CASE expr.tag = "Table" ->
            LET rc == RcNew(h, [TableNew(expr.v.structure) EXCEPT !.data = expr.v.data])
            IN [heap |-> rc.heap, val |-> TableV(rc.ref)]
      [] expr.tag = "Array" ->
            LET r == pipe_values_to_expression_values(expr.v, h)
            IN [heap |-> r.heap, val |-> ArrayV(r.vals)]
      [] OTHER -> [heap |-> h, val |-> expr]

\* the map over full_args of evaluate_fn_row_call / evaluate_fn_table_call
pipe_values_to_expression_values(args, h) ==
    IF args = <<>> THEN [heap |-> h, vals |-> <<>>]
    ELSE LET a == pipe_value_to_expression_value(Head(args), h)
             r == pipe_values_to_expression_values(Tail(args), a.heap)
         IN [heap |-> r.heap, vals |-> <<a.val>> \o r.vals]

\* evaluate_fn_row_call / evaluate_fn_table_call: first is the row or the
\* table put in front of the stage's arguments.  The cells made for the call
\* die with it: the heap is the caller's again when the call returns.
\* [val, heap, out, err]
evaluate_fn_call(first, function, args, h) ==
    LET full_args == <<first>> \o args
        ea == pipe_values_to_expression_values(full_args, h)
        returned(r) ==
            [val |-> IF r.st.err = "" THEN expression_value_to_pipe_value(r.val, r.st.heap)
                     ELSE Null,
             heap |-> SubSeq(r.st.heap, 1, Len(h)),
             out |-> r.st.out,
             err |-> r.st.err]
    IN returned(evaluate_custom_function_call(function, ea.vals,
                    [env |-> <<>>, heap |-> ea.heap, out |-> <<>>, err |-> "",
         consts |-> {}, overwritten |-> {}], MaxFuel))

evaluate_fn_row_call(row, function, args, h) == evaluate_fn_call(RowV(row), function, args, h)

evaluate_fn_table_call(t, function, args, h) == evaluate_fn_call(PTable(t), function, args, h)

\* PipeFunction
PPrint == [tag |-> "Print"]
PCustom(f) == [tag |-> "Custom", f |-> f]

\* SimplePipe::get_pipe_type
get_pipe_type(pipe) ==
    CASE pipe.function.f.return_type.tag = "Table" -> "Reduce"
      [] pipe.function.f.return_type.tag = "Bool" -> "Filter"
      [] OTHER -> "Map"

\* SimplePipe::get_call_structure: the schema of the first parameter, which
\* must be a table type
get_call_structure(pipe) ==
    IF pipe.function.tag # "Custom" \/ Len(pipe.function.f.parameters) = 0
    THEN [ok |-> FALSE, structure |-> {}]
    ELSE IF pipe.function.f.parameters[1][1].tag = "Table"
    THEN parameters_to_structure(pipe.function.f.parameters[1][1].params)
    ELSE [ok |-> FALSE, structure |-> {}]

\* SimplePipe::get_return_structure: the schema of the return type, which
\* must be a table or a row type
get_return_structure(pipe) ==
    IF pipe.function.tag # "Custom" THEN [ok |-> FALSE, structure |-> {}]
    ELSE IF pipe.function.f.return_type.tag \in {"Table", "Row"}
    THEN parameters_to_structure(pipe.function.f.return_type.params)
    ELSE [ok |-> FALSE, structure |-> {}]

RECURSIVE pipe_rollout(_, _, _, _)
\* a rollout that recurses into the expression on the left before it
\* evaluates this stage's arguments
pipe_rollout_left_first(expr, function_name, args, st) ==
    LET fail(s, msg) == [st |-> Panic(s, msg), pipes |-> <<>>, initial_expression |-> ENull]
        rest == IF expr.tag = "Pipe" THEN pipe_rollout(expr.e, expr.name, expr.args, st)
                ELSE [st |-> st, pipes |-> <<>>, initial_expression |-> expr]
        with(ev) ==
          LET evaluated_args == [i \in 1..Len(ev.vals) |->
                                    expression_value_to_pipe_value(ev.vals[i], ev.st.heap)]
              c == env_get(ev.st.env, function_name)
              function == IF function_name = "print" THEN PPrint ELSE PCustom(c.cell.f)
              pipe == [function |-> function, args |-> evaluated_args]
          IN IF ev.st.err # "" THEN fail(ev.st, ev.st.err)
             ELSE IF function_name # "print" /\ ~c.ok THEN fail(ev.st, c.err)
             ELSE IF function_name # "print" /\ c.cell.tag # "Function"
             THEN fail(ev.st, "Expected a function for the pipe")
             ELSE [st |-> ev.st, pipes |-> Append(rest.pipes, pipe),
                   initial_expression |-> rest.initial_expression]
    IN IF rest.st.err # "" THEN rest ELSE with(EvalList(args, rest.st, MaxFuel))

\* pipe_rollout: evaluates this stage's arguments, looks its function up,
\* then recurses into the expression on the left; [st, pipes,
\* initial_expression]
pipe_rollout(expr, function_name, args, st) ==
    LET fail(s, msg) == [st |-> Panic(s, msg), pipes |-> <<>>, initial_expression |-> ENull]
        with(ev) ==
          LET evaluated_args == [i \in 1..Len(ev.vals) |->
                                    expression_value_to_pipe_value(ev.vals[i], ev.st.heap)]
              c == env_get(ev.st.env, function_name)
              function == IF function_name = "print" THEN PPrint ELSE PCustom(c.cell.f)
              pipe == [function |-> function, args |-> evaluated_args]
          IN IF ev.st.err # "" THEN fail(ev.st, ev.st.err)
             ELSE IF function_name # "print" /\ ~c.ok THEN fail(ev.st, c.err)
             ELSE IF function_name # "print" /\ c.cell.tag # "Function"
             THEN fail(ev.st, "Expected a function for the pipe")
             ELSE IF expr.tag = "Pipe"
             THEN LET rest == pipe_rollout(expr.e, expr.name, expr.args, ev.st)
                  IN IF rest.st.err # "" THEN rest
                     ELSE [st |-> rest.st, pipes |-> Append(rest.pipes, pipe),
                           initial_expression |-> rest.initial_expression]
             ELSE [st |-> ev.st, pipes |-> <<pipe>>, initial_expression |-> expr]
    IN with(EvalList(args, st, MaxFuel))

-----------------------------------------------------------------------------
(* Pipe machine: the program the pipe expressions are evaluated in.  The    *)
(* declarations below are evaluated by evaluate_statement to build the      *)
(* evaluator's environment; the rows of t are the input of the pipe.        *)

MaxRows == 2
MaxStages == 2

RowCols == <<<<TInt, "id">>, <<TInt, "v">>>>
R == EIdentifier("r")

RECURSIVE SeqOf(_)
\* s1; s2; ...; sn as nested Compound statements (make_compound of ast.rs)
SeqOf(ss) == IF ss = <<>> THEN SSkip ELSE SCompound(Head(ss), SeqOf(Tail(ss)))

\* for (row x in a) { n = n + 1; }
CountRows ==
    SFor(<<TRow(RowCols), "x">>, EIdentifier("a"),
         SAssign("n", EOperation(EIdentifier("n"), "Addition", ENumber(1))))

Prelude == SeqOf(<<
    \* var table t = table(int id, int v);   var table acc = table(int id, int v);
    SDeclaration(DVariable(TTable(RowCols), "t", ETable(RowCols))),
    SDeclaration(DVariable(TTable(RowCols), "acc", ETable(RowCols))),
    \* fn row step(row r, table a) { table_add_row(a, r);
    \*     return row(int id = r.id, int v = r.v + 1 / r.v); }
    SDeclaration(DFunction(TRow(RowCols), "step",
        <<<<TRow(RowCols), "r">>, <<TTable(RowCols), "a">>>>,
        SCompound(SExpr(EFunctionCall("table_add_row", <<EIdentifier("a"), R>>)),
                  SReturn(ERow(<<<<TInt, "id", EColumnIndexing(R, "id")>>,
                                 <<TInt, "v", EOperation(EColumnIndexing(R, "v"), "Addition",
                                      EOperation(ENumber(1), "Division",
                                                 EColumnIndexing(R, "v")))>>>>))))),
    \* fn bool keep(row r) { print(r.v); return 0 < r.v; }
    SDeclaration(DFunction(TBool, "keep", <<<<TRow(RowCols), "r">>>>,
        SCompound(SExpr(EFunctionCall("print", <<EColumnIndexing(R, "v")>>)),
                  SReturn(EOperation(ENumber(0), "LessThan", EColumnIndexing(R, "v")))))),
    \* fn table(int v) total(table tbl) { var s = 0; for (row x in tbl) { s = s + x.v; }
    \*     table_add_row(tbl, row(int v = s)); var o = table(int v);
    \*     table_add_row(o, row(int v = s)); return o; }
    SDeclaration(DFunction(TTable(<<<<TInt, "v">>>>), "total", <<<<TTable(RowCols), "tbl">>>>,
        SeqOf(<<SDeclaration(DVariable(TInt, "s", ENumber(0))),
                SFor(<<TRow(RowCols), "x">>, EIdentifier("tbl"),
                     SAssign("s", EOperation(EIdentifier("s"), "Addition",
                                             EColumnIndexing(EIdentifier("x"), "v")))),
                SExpr(EFunctionCall("table_add_row",
                        <<EIdentifier("tbl"), ERow(<<<<TInt, "v", EIdentifier("s")>>>>)>>)),
                SDeclaration(DVariable(TTable(<<<<TInt, "v">>>>), "o",
                                       ETable(<<<<TInt, "v">>>>))),
                SExpr(EFunctionCall("table_add_row",
                        <<EIdentifier("o"), ERow(<<<<TInt, "v", EIdentifier("s")>>>>)>>)),
                SReturn(EIdentifier("o"))>>)))
    >>)

\* fn row seen(row r, table a) { table_add_row(a, r); var int n = 0;
\*     for (row x in a) { n = n + 1; } return row(int id = r.id, int v = n); }
DeclareSeen ==
    SDeclaration(DFunction(TRow(RowCols), "seen",
        <<<<TRow(RowCols), "r">>, <<TTable(RowCols), "a">>>>,
        SeqOf(<<SExpr(EFunctionCall("table_add_row", <<EIdentifier("a"), R>>)),
                SDeclaration(DVariable(TInt, "n", ENumber(0))),
                CountRows,
                SReturn(ERow(<<<<TInt, "id", EColumnIndexing(R, "id")>>,
                               <<TInt, "v", EIdentifier("n")>>>>))>>)))

\* fn bool fresh(row r, table a) { table_add_row(a, r); var int n = 0;
\*     for (row x in a) { n = n + 1; } return n < 2; }
DeclareFresh ==
    SDeclaration(DFunction(TBool, "fresh",
        <<<<TRow(RowCols), "r">>, <<TTable(RowCols), "a">>>>,
        SeqOf(<<SExpr(EFunctionCall("table_add_row", <<EIdentifier("a"), R>>)),
                SDeclaration(DVariable(TInt, "n", ENumber(0))),
                CountRows,
                SReturn(EOperation(EIdentifier("n"), "LessThan", ENumber(2)))>>)))

\* fn table src(table a) { print(0); return a; }
DeclareSrc ==
    SDeclaration(DFunction(TTable(RowCols), "src", <<<<TTable(RowCols), "a">>>>,
        SCompound(SExpr(EFunctionCall("print", <<ENumber(0)>>)),
                  SReturn(EIdentifier("a")))))

\* the declarations of t and acc and of the stage functions that count
CountingPrelude ==
    SeqOf(<<SDeclaration(DVariable(TTable(RowCols), "t", ETable(RowCols))),
            SDeclaration(DVariable(TTable(RowCols), "acc", ETable(RowCols))),
            DeclareSeen, DeclareFresh>>)

\* the declarations of Prelude and then the one of src
MarkedPrelude == SCompound(Prelude, DeclareSrc)

\* the evaluator state after the declarations
PreludeState(prelude) ==
    Statement(prelude,
        [env |-> env_expand_scope(env_new), heap |-> <<>>, out |-> <<>>, err |-> "",
         consts |-> {}, overwritten |-> {}],
        MaxFuel).st

\* the stage calls a chain is made of: <<function name, argument expressions>>
CustomStages == {<<"step", <<EIdentifier("acc")>>>>, <<"keep", <<>>>>, <<"total", <<>>>>}
LastStages == CustomStages \cup {<<"print", <<>>>>}

RECURSIVE Chains(_)
\* the chains of exactly n stages; print only as the last stage
Chains(n) ==
    IF n = 1 THEN {<<l>> : l \in LastStages}
    ELSE {<<c>> \o rest : c \in CustomStages, rest \in Chains(n - 1)}

RECURSIVE BuildPipe(_, _)
\* the right-leaning Expr::Pipe of a chain over the initial expression e0
BuildPipe(e0, chain) ==
    IF chain = <<>> THEN e0
    ELSE BuildPipe(EPipe(e0, Head(chain)[1], Head(chain)[2]), Tail(chain))

\* chains whose stage function counts the rows of its table argument
CountingChains ==
    {<<<<"seen", <<EIdentifier("acc")>>>>>>, <<<<"fresh", <<EIdentifier("acc")>>>>>>,
     <<<<"seen", <<EIdentifier("acc")>>>>, <<"fresh", <<EIdentifier("acc")>>>>>>}

\* print(n) written as an argument of a stage: it writes n when it is
\* evaluated and its value, Null, is bound to no parameter
Mark(n) == EFunctionCall("print", <<ENumber(n)>>)

\* chains whose argument expressions write when they are evaluated
MarkedChains ==
    {<<<<"keep", <<Mark(1), Mark(2)>>>>>>,
     <<<<"keep", <<Mark(1), Mark(2)>>>>, <<"step", <<EIdentifier("acc"), Mark(3)>>>>>>,
     <<<<"step", <<EIdentifier("acc"), Mark(3)>>>>, <<"keep", <<Mark(1), Mark(2)>>>>>>,
     <<<<"keep", <<Mark(1), Mark(2)>>>>, <<"print", <<Mark(4)>>>>>>}

\* src(t) pipe ...: the initial expression writes 0 when it is evaluated
MarkedExprs == {BuildPipe(EFunctionCall("src", <<EIdentifier("t")>>), c) : c \in MarkedChains}

PipeExprs ==
    {BuildPipe(EIdentifier("t"), c) : c \in UNION {Chains(n) : n \in 1..MaxStages}}
        \cup {BuildPipe(EFunctionCall("async_import",
                            <<EStringLiteral("rows.csv"), EIdentifier("t")>>), <<l>>) :
                 l \in {<<"keep", <<>>>>, <<"print", <<>>>>}}
        \cup {BuildPipe(EIdentifier("t"), c) : c \in CountingChains}
        \cup MarkedExprs

\* the rows a table t can hold: row i has id i and a v of 0 or 1
InputRow(i, v) == <<<<"id", CInt(i)>>, <<"v", CInt(v)>>>>
InputTables ==
    UNION {{[i \in 1..n |-> InputRow(i, vs[i])] : vs \in [1..n -> {0, 1}]} : n \in 0..MaxRows}

\* the declarations a pipe expression is evaluated after
PreludeOf(expr) ==
    IF expr \in MarkedExprs THEN MarkedPrelude
    ELSE IF expr \in {BuildPipe(EIdentifier("t"), c) : c \in CountingChains}
    THEN CountingPrelude
    ELSE Prelude

RECURSIVE NStages(_)
\* the number of stages of a pipe expression
NStages(expr) == IF expr.tag = "Pipe" THEN 1 + NStages(expr.e) ELSE 0

N == NStages(pexpr)
Evaluator == -1

NoTable == [data |-> <<>>, structure |-> {}]
NoThread == [status |-> "unspawned", kind |-> "None", phase |-> "none",
             pending |-> <<>>, buf |-> NoTable, args |-> <<>>, why |-> ""]
NoChan == [open |-> FALSE, q |-> <<>>, snd |-> FALSE, rcv |-> FALSE]

PipeIdle ==
    /\ pexpr = ENull /\ penv = <<>> /\ memory = <<>> /\ memory0 = <<>> /\ stdout = <<>>
    /\ epc = "idle" /\ pipes = <<>> /\ initial_expression = ENull
    /\ spawned = 0 /\ joined = 0 /\ table = NoTable /\ result = Null
    /\ thr = <<>> /\ chan = <<>> /\ sent = <<>> /\ calls = <<>>

PipeInit ==
    /\ pexpr \in PipeExprs
    /\ penv = PreludeState(PreludeOf(pexpr)).env
    /\ \E rows \in InputTables :
           memory = [PreludeState(PreludeOf(pexpr)).heap EXCEPT ![1].data = rows]
    /\ memory0 = memory
    /\ stdout = <<>>
    /\ epc = "rollout"
    /\ pipes = <<>> /\ initial_expression = ENull
    /\ spawned = 0 /\ joined = 0 /\ table = NoTable /\ result = Null
    /\ thr = [i \in 0..N |-> NoThread]
    /\ chan = [i \in 0..N |-> NoChan]
    /\ sent = [i \in 0..N |-> <<>>]
    /\ calls = [i \in 0..N |-> <<>>]

-----------------------------------------------------------------------------
(* Pipe machine: the evaluator thread inside evaluate_pipes                 *)

\* the writes out, made by thread w
Tagged(w, out) == [i \in 1..Len(out) |-> [w |-> w, s |-> out[i]]]

\* the evaluator thread panics: the receiver it holds (rx, the receiving end
\* of the last channel created) is dropped by the unwinding
EvaluatorPanics ==
    /\ epc' = "aborted"
    /\ chan' = IF chan[spawned].open THEN [chan EXCEPT ![spawned].rcv = FALSE] ELSE chan

\* pipes.rs:135  let (pipes, initial_expression) = pipe_rollout(...)
PipeRollout ==
    /\ epc = "rollout"
    /\ LET rolled(r) ==
               /\ memory' = r.st.heap
               /\ stdout' = stdout \o Tagged(Evaluator, r.st.out)
               /\ IF r.st.err # ""
                  THEN EvaluatorPanics /\ UNCHANGED <<pipes, initial_expression>>
                  ELSE /\ pipes' = r.pipes
                       /\ initial_expression' = r.initial_expression
                       /\ epc' = "init"
                       /\ UNCHANGED chan
       IN rolled(pipe_rollout(pexpr.e, pexpr.name, pexpr.args,
                     [env |-> penv, heap |-> memory, out |-> <<>>, err |-> "",
         consts |-> {}, overwritten |-> {}]))
    /\ UNCHANGED <<envVars, evalVars, pexpr, penv, memory0, spawned, joined, table, result, thr, sent, calls>>

\* init_pipe: async_import(...) is handed to a pipe_import thread with its
\* evaluated arguments; any other expression must evaluate to a table, whose
\* clone is handed to a pipe_init_table thread
InitPipe ==
    /\ epc = "init"
    /\ LET st == [env |-> penv, heap |-> memory, out |-> <<>>, err |-> "",
         consts |-> {}, overwritten |-> {}]
           async == initial_expression.tag = "FunctionCall"
                        /\ initial_expression.name = "async_import"
           spawn(t) == /\ thr' = [thr EXCEPT ![0] = t]
                       /\ chan' = [chan EXCEPT ![0] =
                                      [open |-> TRUE, q |-> <<>>, snd |-> TRUE, rcv |-> TRUE]]
                       /\ epc' = "spawn"
           \* la: the evaluated arguments of async_import; ex: the evaluated
           \* initial expression
           import(la) ==
               /\ memory' = la.st.heap
               /\ stdout' = stdout \o Tagged(Evaluator, la.st.out)
               /\ IF la.st.err # "" THEN EvaluatorPanics /\ UNCHANGED thr
                  ELSE spawn([NoThread EXCEPT !.status = "running", !.kind = "Import",
                                 !.phase = "start",
                                 !.args = [i \in 1..Len(la.vals) |->
                                     expression_value_to_pipe_value(la.vals[i], la.st.heap)]])
           produce(ex) ==
               /\ memory' = ex.st.heap
               /\ stdout' = stdout \o Tagged(Evaluator, ex.st.out)
               /\ IF ex.st.err # "" THEN EvaluatorPanics /\ UNCHANGED thr
                  ELSE IF ex.val.tag = "Table"
                  THEN spawn([NoThread EXCEPT !.status = "running", !.kind = "Producer",
                                 !.phase = "emit",
                                 !.pending = ex.st.heap[ex.val.v].data,
                                 !.buf = PTable(ex.st.heap[ex.val.v]).v])
                  ELSE EvaluatorPanics /\ UNCHANGED thr
       IN IF async THEN import(EvalList(initial_expression.args, st, MaxFuel))
          ELSE produce(Expression(initial_expression, st, MaxFuel))
    /\ UNCHANGED <<envVars, evalVars, pexpr, penv, memory0, pipes, initial_expression, spawned, joined,
                   table, result, sent, calls>>

\* one iteration of the loop of evaluate_pipes (pipes.rs:140-146):
\* pipe_middle_map spawns the worker of the next stage on a new channel.  A
\* print worker is not given the sending end, which is dropped at once.
SpawnStage ==
    /\ epc = "spawn"
    /\ spawned < Len(pipes)
    /\ LET i == spawned + 1
           pipe == pipes[i]
           custom == pipe.function.tag = "Custom"
           kind == IF custom THEN get_pipe_type(pipe) ELSE "Print"
       IN /\ chan' = [chan EXCEPT ![i] =
                         [open |-> TRUE, q |-> <<>>, snd |-> custom, rcv |-> TRUE]]
          /\ thr' = [thr EXCEPT ![i] =
                        [NoThread EXCEPT !.status = "running", !.kind = kind,
                            !.phase = IF kind = "Reduce" THEN "start" ELSE "recv"]]
          /\ spawned' = i
          /\ epc' = IF i = Len(pipes) THEN "alloc" ELSE "spawn"
    /\ UNCHANGED <<envVars, evalVars, pexpr, penv, memory, memory0, stdout, pipes, initial_expression,
                   joined, table, result, sent, calls>>

\* pipes.rs:148-166, the allocation of the output table: with the return
\* structure of the last stage, or with no column after print
AllocTable ==
    /\ epc = "alloc"
    /\ LET last_pipe == pipes[Len(pipes)]
           rs == get_return_structure(last_pipe)
       IN IF last_pipe.function.tag = "Custom"
          THEN IF rs.ok
               THEN /\ table' = [data |-> <<>>, structure |-> rs.structure]
                    /\ epc' = "collect"
                    /\ UNCHANGED chan
               ELSE EvaluatorPanics /\ UNCHANGED table
          ELSE /\ table' = [data |-> <<>>, structure |-> {}]
               /\ epc' = "collect"
               /\ UNCHANGED chan
    /\ UNCHANGED <<envVars, evalVars, pexpr, penv, memory, memory0, stdout, pipes, initial_expression,
                   spawned, joined, result, thr, sent, calls>>

\* for row in rx.iter() { table.add_row(row) }: one row received
Collect ==
    /\ epc = "collect"
    /\ chan[spawned].q # <<>>
    /\ table' = [table EXCEPT !.data = Append(@, Head(chan[spawned].q))]
    /\ chan' = [chan EXCEPT ![spawned].q = Tail(@)]
    /\ UNCHANGED <<envVars, evalVars, pexpr, penv, memory, memory0, stdout, epc, pipes, initial_expression,
                   spawned, joined, result, thr, sent, calls>>

\* the end of rx.iter(): the channel is empty and its sender is gone
CollectEnd ==
    /\ epc = "collect"
    /\ chan[spawned].q = <<>>
    /\ ~chan[spawned].snd
    /\ epc' = "join"
    /\ UNCHANGED <<envVars, evalVars, pexpr, penv, memory, memory0, stdout, pipes, initial_expression,
                   spawned, joined, table, result, thr, chan, sent, calls>>

\* a join that does not wait
JoinWithoutWaiting(t) == TRUE

\* JoinHandle::join returns once the thread has finished
JoinReady(t) == t.status \in {"exited", "panicked"}
\* a join whose result is dropped unread
JoinResultIgnored(t) == FALSE

\* .unwrap() of the join result panics if the thread panicked
JoinPanics(t) == t.status = "panicked"

\* t1.join().unwrap(), then t.join().unwrap() for the stage workers in order
Join ==
    /\ epc = "join"
    /\ joined <= Len(pipes)
    /\ JoinReady(thr[joined])
    /\ IF JoinPanics(thr[joined])
       THEN EvaluatorPanics /\ UNCHANGED joined
       ELSE joined' = joined + 1 /\ UNCHANGED <<epc, chan>>
    /\ UNCHANGED <<envVars, evalVars, pexpr, penv, memory, memory0, stdout, pipes, initial_expression,
                   spawned, table, result, thr, sent, calls>>

\* pipes.rs:174  ExpressionValue::Table(Rc::new(RefCell::new(table)))
PipeReturn ==
    /\ epc = "join"
    /\ joined = Len(pipes) + 1
    /\ LET rc == RcNew(memory, [TableNew(table.structure) EXCEPT !.data = table.data])
       IN memory' = rc.heap /\ result' = TableV(rc.ref)
    /\ epc' = "done"
    /\ UNCHANGED <<envVars, evalVars, pexpr, penv, memory0, stdout, pipes, initial_expression,
                   spawned, joined, table, thr, chan, sent, calls>>

-----------------------------------------------------------------------------
(* Pipe machine: the worker threads.  Thread i receives on chan[i-1] and    *)
(* sends on chan[i].  pending holds the rows the thread has still to send.  *)

Workers == 1..Len(pipes)

\* a thread ends, normally or by a panic: both ends it owns are dropped
Ended(i, status, why) ==
    /\ thr' = [thr EXCEPT ![i].status = status, ![i].why = why, ![i].pending = <<>>]
    /\ chan' = [j \in DOMAIN chan |->
                   IF j = i THEN [chan[j] EXCEPT !.snd = FALSE]
                   ELSE IF j = i - 1 THEN [chan[j] EXCEPT !.rcv = FALSE]
                   ELSE chan[j]]

\* a receiver that gives up as soon as it finds nothing queued
UpstreamEmpty(i) == chan[i - 1].q = <<>>

\* the end of "for row in receiver": nothing queued and the sender dropped
UpstreamClosed(i) == chan[i - 1].q = <<>> /\ ~chan[i - 1].snd

\* a filter that forwards every row
FilterForwardAll(row, b) == <<row>>

\* what a filter stage sends for a row its function returned b for
\* (pipes.rs:310-314)
FilterEmit(row, b) == IF b THEN <<row>> ELSE <<>>

\* sender.send(row).unwrap() of any thread: the row is queued, or the thread
\* panics because the receiver is gone
ThreadSend ==
    \E i \in DOMAIN thr :
       /\ thr[i].status = "running"
       /\ thr[i].phase \in {"recv", "emit"}
       /\ thr[i].pending # <<>>
       /\ IF chan[i].rcv
          THEN /\ chan' = [chan EXCEPT ![i].q = Append(@, Head(thr[i].pending))]
               /\ sent' = [sent EXCEPT ![i] = Append(@, Head(thr[i].pending))]
               /\ thr' = [thr EXCEPT ![i].pending = Tail(@)]
          ELSE Ended(i, "panicked", "send") /\ UNCHANGED sent
       /\ UNCHANGED <<envVars, evalVars, pexpr, penv, memory, memory0, stdout, epc, pipes, initial_expression,
                      spawned, joined, table, result, calls>>

\* the thread function returns: pipe_init_table after its last row, a map,
\* filter or print worker when its receiver is exhausted, a reduce worker
\* after its last output row
ThreadExit ==
    \E i \in DOMAIN thr :
       /\ thr[i].status = "running"
       /\ thr[i].pending = <<>>
       /\ \/ thr[i].kind = "Producer"
          \/ thr[i].kind \in {"Map", "Filter", "Print"} /\ UpstreamClosed(i)
          \/ thr[i].kind = "Reduce" /\ thr[i].phase = "emit"
       /\ Ended(i, "exited", "")
       /\ UNCHANGED <<envVars, evalVars, pexpr, penv, memory, memory0, stdout, epc, pipes, initial_expression,
                      spawned, joined, table, result, sent, calls>>

\* pipe_import: the file name and the table are taken from the arguments,
\* then import_csv opens the file; no file exists, so the open fails
ImportStart ==
    /\ thr[0].status = "running"
    /\ thr[0].kind = "Import"
    /\ Ended(0, "panicked",
             IF Len(thr[0].args) < 1 THEN "index out of bounds"
             ELSE IF thr[0].args[1].tag # "String" THEN "Expected a string literal"
             ELSE IF Len(thr[0].args) < 2 THEN "index out of bounds"
             ELSE IF thr[0].args[2].tag # "Table" THEN "Expected a table"
             ELSE "Failed to open file")
    /\ UNCHANGED <<envVars, evalVars, pexpr, penv, memory, memory0, stdout, epc, pipes, initial_expression,
                   spawned, joined, table, result, sent, calls>>

\* a map worker takes a row and calls its function on it (pipes.rs:287-298)
MapRecv ==
    \E i \in Workers :
       /\ thr[i].status = "running" /\ thr[i].kind = "Map"
       /\ thr[i].pending = <<>>
       /\ chan[i - 1].q # <<>>
       /\ LET row == Head(chan[i - 1].q)
              got == [chan EXCEPT ![i - 1].q = Tail(@)]
              called(r) ==
                  /\ memory' = r.heap
                  /\ stdout' = stdout \o Tagged(i, r.out)
                  /\ IF r.err # ""
                     THEN Ended(i, "panicked", "call")
                     ELSE IF r.val.tag = "Row"
                     THEN /\ thr' = [thr EXCEPT ![i].pending = <<r.val.v>>]
                          /\ chan' = got
                     ELSE Ended(i, "panicked", "Expected a row or table for the map")
          IN called(evaluate_fn_row_call(row, pipes[i].function.f, pipes[i].args, memory))
       /\ UNCHANGED <<envVars, evalVars, pexpr, penv, memory0, epc, pipes, initial_expression,
                      spawned, joined, table, result, sent, calls>>

\* a filter worker takes a row and calls its function on it (pipes.rs:306-319)
FilterRecv ==
    \E i \in Workers :
       /\ thr[i].status = "running" /\ thr[i].kind = "Filter"
       /\ thr[i].pending = <<>>
       /\ chan[i - 1].q # <<>>
       /\ LET row == Head(chan[i - 1].q)
              got == [chan EXCEPT ![i - 1].q = Tail(@)]
              called(r) ==
                  /\ memory' = r.heap
                  /\ stdout' = stdout \o Tagged(i, r.out)
                  /\ IF r.err # ""
                     THEN Ended(i, "panicked", "call")
                     ELSE IF r.val.tag = "Bool"
                     THEN /\ thr' = [thr EXCEPT ![i].pending = FilterEmit(row, r.val.v)]
                          /\ chan' = got
                     ELSE Ended(i, "panicked", "Expected a boolean for the filter")
          IN called(evaluate_fn_row_call(row, pipes[i].function.f, pipes[i].args, memory))
       /\ UNCHANGED <<envVars, evalVars, pexpr, penv, memory0, epc, pipes, initial_expression,
                      spawned, joined, table, result, sent, calls>>

\* pipe_print: every row received is printed by wrench_print
PrintRecv ==
    \E i \in Workers :
       /\ thr[i].status = "running" /\ thr[i].kind = "Print"
       /\ chan[i - 1].q # <<>>
       /\ stdout' = stdout \o
              Tagged(i, wrench_print(<<RowV(Head(chan[i - 1].q))>>, memory, <<>>).out)
       /\ chan' = [chan EXCEPT ![i - 1].q = Tail(@)]
       /\ UNCHANGED <<envVars, evalVars, pexpr, penv, memory, memory0, epc, pipes, initial_expression,
                      spawned, joined, table, result, thr, sent, calls>>

\* a reduce worker starts: Table::new(pipe.get_call_structure())
ReduceStart ==
    \E i \in Workers :
       /\ thr[i].status = "running" /\ thr[i].kind = "Reduce"
       /\ thr[i].phase = "start"
       /\ LET cs == get_call_structure(pipes[i])
          IN IF cs.ok
             THEN /\ thr' = [thr EXCEPT ![i].phase = "recv",
                                        ![i].buf = [data |-> <<>>, structure |-> cs.structure]]
                  /\ UNCHANGED chan
             ELSE Ended(i, "panicked", "Expected a table for the first parameter")
       /\ UNCHANGED <<envVars, evalVars, pexpr, penv, memory, memory0, stdout, epc, pipes, initial_expression,
                      spawned, joined, table, result, sent, calls>>

\* a reduce worker buffers a row: table.add_row(row.clone())
ReduceRecv ==
    \E i \in Workers :
       /\ thr[i].status = "running" /\ thr[i].kind = "Reduce"
       /\ thr[i].phase = "recv"
       /\ chan[i - 1].q # <<>>
       /\ thr' = [thr EXCEPT ![i].buf.data = Append(@, Head(chan[i - 1].q))]
       /\ chan' = [chan EXCEPT ![i - 1].q = Tail(@)]
       /\ UNCHANGED <<envVars, evalVars, pexpr, penv, memory, memory0, stdout, epc, pipes, initial_expression,
                      spawned, joined, table, result, sent, calls>>

\* a reduce worker calls its function on the buffered table, once its
\* receiver is exhausted; the rows of the table returned are then to be sent
ReduceCall ==
    \E i \in Workers :
       /\ thr[i].status = "running" /\ thr[i].kind = "Reduce"
       /\ thr[i].phase = "recv"
       /\ UpstreamClosed(i)
       /\ LET called(r) ==
                  /\ memory' = r.heap
                  /\ stdout' = stdout \o Tagged(i, r.out)
                  /\ calls' = [calls EXCEPT ![i] = Append(@, thr[i].buf)]
                  /\ IF r.err # ""
                     THEN Ended(i, "panicked", "call")
                     ELSE IF r.val.tag = "Table"
                     THEN /\ thr' = [thr EXCEPT ![i].phase = "emit",
                                                ![i].pending = r.val.v.data]
                          /\ UNCHANGED chan
                     ELSE Ended(i, "panicked", "Expected a table for the reduce")
          IN called(evaluate_fn_table_call(thr[i].buf, pipes[i].function.f, pipes[i].args,
                                           memory))
       /\ UNCHANGED <<envVars, evalVars, pexpr, penv, memory0, epc, pipes, initial_expression,
                      spawned, joined, table, result, sent>>

-----------------------------------------------------------------------------
(* Programs of the type checker machine and of the driver: pipe steps,      *)
(* scenario E4 of the specification.                                        *)

\* the two schemas of the pipe steps, and the types built on them
Schema1 == <<<<TInt, "id">>, <<TInt, "v">>>>
Schema2 == <<<<TInt, "id">>>>
StageParamTypes == {TRow(Schema1), TRow(Schema2), TTable(Schema1), TTable(Schema2), TInt}
StageReturnTypes == StageParamTypes \cup {TBool}

T == EIdentifier("t")

\* var table(int id, int v) t = table(int id, int v);
DeclareT == SDeclaration(DVariable(TTable(Schema1), "t", ETable(Schema1)))

\* fn return_type name(param_type a) { return a; }
DeclareStage(name, param_type, return_type) ==
    SDeclaration(DFunction(return_type, name, <<<<param_type, "a">>>>,
                           SReturn(EIdentifier("a"))))

\* the expressions a pipe step is applied to: the table t, a row of the
\* schema of t, and t after a stage g
StepInputs ==
    {T, ERow(<<<<TInt, "id", ENumber(1)>>, <<TInt, "v", ENumber(10)>>>>),
     EPipe(T, "g", <<>>)}

\* declarations of t, of g : Table(Schema1) -> Table(Schema1) and of f, and
\* then the statement `e pipe f();`
PipeStep(e, param_type, return_type) ==
    SeqOf(<<DeclareT,
            DeclareStage("g", TTable(Schema1), TTable(Schema1)),
            DeclareStage("f", param_type, return_type),
            SExpr(EPipe(e, "f", <<>>))>>)

PipeSteps ==
    {PipeStep(e, p, r) : e \in StepInputs, p \in StageParamTypes, r \in StageReturnTypes}

\* Operator of ast.rs
Operators ==
    {"Addition", "Subtraction", "Multiplication", "Division", "Modulo", "Exponent",
     "Equals", "LessThan", "LessThanOrEqual", "Or"}

OperandTypes == {TInt, TDouble, TBool, TString}

\* a literal of each operand type
Literal(t) ==
    CASE t = TInt -> ENumber(2)
      [] t = TDouble -> EDouble("2.5")
      [] t = TBool -> EBool(TRUE)
      [] t = TString -> EStringLiteral("a")

\* var t x = <left> op <right>;
DeclareOperation(t, left, op, right) ==
    SDeclaration(DVariable(t, "x", EOperation(Literal(left), op, Literal(right))))

OperatorPrograms ==
    {DeclareOperation(t, l, op, r) :
        t \in OperandTypes, l \in OperandTypes, op \in Operators, r \in OperandTypes}

\* var int x = 2.5;   and   var int x = 2; x = 2.5;
NarrowingDeclaration == SDeclaration(DVariable(TInt, "x", Literal(TDouble)))
NarrowingAssignment ==
    SCompound(SDeclaration(DVariable(TInt, "x", Literal(TInt))), SAssign("x", Literal(TDouble)))
\* var double x = 2;   and   var double x = 2.5; x = 2;
WideningDeclaration == SDeclaration(DVariable(TDouble, "x", Literal(TInt)))
WideningAssignment ==
    SCompound(SDeclaration(DVariable(TDouble, "x", Literal(TDouble))), SAssign("x", Literal(TInt)))

CastPrograms ==
    {NarrowingDeclaration, NarrowingAssignment, WideningDeclaration, WideningAssignment}

\* fn row(int id, int v) f(row(int id, int v) a, int n) { return a; }
DeclareStageWithArgument ==
    SDeclaration(DFunction(TRow(Schema1), "f", <<<<TRow(Schema1), "a">>, <<TInt, "n">>>>,
                           SReturn(EIdentifier("a"))))

\* the argument lists written after the name of the stage
WrittenArguments == {<<>>, <<ENumber(1)>>, <<ENumber(1), ENumber(2)>>}

\* declarations of t and of the stage f of two parameters, and then the
\* statement `e pipe f(args);`
ArgumentStep(e, args) ==
    SeqOf(<<DeclareT, DeclareStageWithArgument, SExpr(EPipe(e, "f", args))>>)

ArgumentSteps ==
    {ArgumentStep(e, args) : e \in StepInputs \ {EPipe(T, "g", <<>>)}, args \in WrittenArguments}

TypePrograms == PipeSteps \cup OperatorPrograms \cup CastPrograms \cup ArgumentSteps

\* table_add_row(t, row(int id = id, int v = v));
AddRowT(id, v) ==
    SExpr(EFunctionCall("table_add_row",
                        <<T, ERow(<<<<TInt, "id", ENumber(id)>>, <<TInt, "v", ENumber(v)>>>>)>>))

\* fn row(int id, int v) add1(row(int id, int v) r) {
\*     return row(int id = r.id, int v = r.v + 1); }
DeclareAdd1 ==
    SDeclaration(DFunction(TRow(Schema1), "add1", <<<<TRow(Schema1), "r">>>>,
        SReturn(ERow(<<<<TInt, "id", EColumnIndexing(EIdentifier("r"), "id")>>,
                       <<TInt, "v", EOperation(EColumnIndexing(EIdentifier("r"), "v"),
                                               "Addition", ENumber(1))>>>>))))

\* fn bool keep(row(int id, int v) r) { return r.v < 25; }
DeclareKeep ==
    SDeclaration(DFunction(TBool, "keep", <<<<TRow(Schema1), "r">>>>,
        SReturn(EOperation(EColumnIndexing(EIdentifier("r"), "v"), "LessThan",
                           ENumber(25)))))

\* scenario E4: t holds (1,10), (2,20), (3,30);
\* t pipe add1() pipe keep() pipe print();
E4 ==
    SeqOf(<<DeclareT, AddRowT(1, 10), AddRowT(2, 20), AddRowT(3, 30),
            DeclareAdd1, DeclareKeep,
            SExpr(EPipe(EPipe(EPipe(T, "add1", <<>>), "keep", <<>>), "print", <<>>))>>)

-----------------------------------------------------------------------------
(* Driver (src/src/frontend/main.rs): run() type checks the syntax tree in  *)
(* the global environment and hands it to interpret() when the check        *)
(* returned Ok.  The programs are syntax trees; lexing and parsing are not  *)
(* modelled.                                                                *)

MaxStatements == 3

C == EIdentifier("c")
CallPrint(e) == SExpr(EFunctionCall("print", <<e>>))

\* the statements the programs about constants are made of
ConstStatements == {
    \* const int c = 1;          var int c = 1;          c = 2;
    SDeclaration(DConstant(TInt, "c", ENumber(1))),
    SDeclaration(DVariable(TInt, "c", ENumber(1))),
    SAssign("c", ENumber(2)),
    \* print(1);
    CallPrint(ENumber(1)),
    \* if (true) { var int c = 3; c = 4; } else { }
    SIf(EBool(TRUE), SCompound(SDeclaration(DVariable(TInt, "c", ENumber(3))),
                               SAssign("c", ENumber(4))), SSkip),
    \* if (true) { const int c = 1; } else { }
    SIf(EBool(TRUE), SDeclaration(DConstant(TInt, "c", ENumber(1))), SSkip),
    \* while (false) { const int c = 1; }
    SWhile(EBool(FALSE), SDeclaration(DConstant(TInt, "c", ENumber(1)))),
    \* for (int c in [1]) { c = 2; }
    SFor(<<TInt, "c">>, EArray(<<ENumber(1)>>), SAssign("c", ENumber(2))),
    \* fn int f(int c) { c = 2; return c; }          print(f(1));
    SDeclaration(DFunction(TInt, "f", <<<<TInt, "c">>>>,
                           SCompound(SAssign("c", ENumber(2)), SReturn(C)))),
    CallPrint(EFunctionCall("f", <<ENumber(1)>>)),
    \* fn int g() { return c; }          print(g());
    SDeclaration(DFunction(TInt, "g", <<>>, SReturn(C))),
    CallPrint(EFunctionCall("g", <<>>)) }

RECURSIVE StatementLists(_, _)
\* the sequences of 1 to n statements of the set
StatementLists(statements, n) ==
    IF n = 0 THEN {}
    ELSE {<<s>> : s \in statements}
            \cup {<<s>> \o rest : s \in statements, rest \in StatementLists(statements, n - 1)}

ConstPrograms == {SeqOf(ss) : ss \in StatementLists(ConstStatements, MaxStatements)}

MaxAppends == 2

U == EIdentifier("u")

\* var table(int id, int v) u = t;
DeclareU == SDeclaration(DVariable(TTable(Schema1), "u", T))

\* table_add_row(table, row(int id = id, int v = v));
AddRow(table_expr, id, v) ==
    SExpr(EFunctionCall("table_add_row",
        <<table_expr, ERow(<<<<TInt, "id", ENumber(id)>>, <<TInt, "v", ENumber(v)>>>>)>>))

\* fn null add(table(int id, int v) a) { table_add_row(a, row(int id = 5, int v = 50)); }
DeclareAdd ==
    SDeclaration(DFunction(TNull, "add", <<<<TTable(Schema1), "a">>>>,
                           AddRow(EIdentifier("a"), 5, 50)))

\* import("data.csv", table)
Import(table_expr) == EFunctionCall("import", <<EStringLiteral("data.csv"), table_expr>>)

\* the ways the programs about aliases append to the one table they build
Appends == {"t", "u", "add(t)", "add(u)", "import", "import(u)"}
Append1(how) ==
    CASE how = "t" -> AddRow(T, 1, 10)
      [] how = "u" -> AddRow(U, 2, 20)
      [] how = "add(t)" -> SExpr(EFunctionCall("add", <<T>>))
      [] how = "add(u)" -> SExpr(EFunctionCall("add", <<U>>))
      [] how = "import" -> SExpr(Import(T))
      [] how = "import(u)" -> AddRow(Import(U), 3, 30)

\* the declarations of t, of its alias u and of add, then the appends
AliasProgram(hows) ==
    SeqOf(<<DeclareT, DeclareU, DeclareAdd>> \o [i \in 1..Len(hows) |-> Append1(hows[i])])

AliasPrograms == {AliasProgram(hows) : hows \in StatementLists(Appends, MaxAppends)}

\* the rows the programs about table structures add to t: a row of the
\* schema of t, and rows with a column missing, a column of another type, a
\* column too many, and another column altogether
RowShapes ==
    {<<<<TInt, "id", ENumber(1)>>, <<TInt, "v", ENumber(10)>>>>,
     <<<<TInt, "id", ENumber(1)>>>>,
     <<<<TBool, "id", EBool(TRUE)>>, <<TInt, "v", ENumber(10)>>>>,
     <<<<TInt, "id", ENumber(1)>>, <<TInt, "v", ENumber(10)>>, <<TInt, "w", ENumber(0)>>>>,
     <<<<TBool, "b", EBool(TRUE)>>>>}

\* var table(int id, int v) t = table(int id, int v); table_add_row(t, row(...));
RowProgram(columns) ==
    SeqOf(<<DeclareT, SExpr(EFunctionCall("table_add_row", <<T, ERow(columns)>>))>>)

RowPrograms == {RowProgram(columns) : columns \in RowShapes}

\* var table(int id, int v) w = table(int id, int v);
DeclareW == SDeclaration(DVariable(TTable(Schema1), "w", ETable(Schema1)))

\* what the body of the loop over t does: it prints the id of the row, or
\* it appends to t, or to w
ForBodies == Appends \cup {"print", "w"}
ForBody(how) ==
    CASE how = "print" -> CallPrint(EColumnIndexing(EIdentifier("r"), "id"))
      [] how = "w" -> AddRow(EIdentifier("w"), 4, 40)
      [] OTHER -> Append1(how)

\* the rows t holds before the loop: row i is (i, 10 * i)
RowsBefore(n) == [i \in 1..n |-> AddRowT(i, 10 * i)]

\* declarations of t, u, w and add; n appends to t;
\* for (row(int id, int v) r in table) { body }
ForProgram(n, table_expr, how) ==
    SeqOf(<<DeclareT, DeclareU, DeclareW, DeclareAdd>> \o RowsBefore(n)
              \o <<SFor(<<TRow(Schema1), "r">>, table_expr, ForBody(how))>>)

ForPrograms ==
    {ForProgram(n, e, how) : n \in 0..MaxAppends, e \in {T, U}, how \in ForBodies}

RunPrograms == ConstPrograms \cup {E4} \cup AliasPrograms \cup RowPrograms \cup ForPrograms

\* the evaluator state before interpret is called
NotStarted == [env |-> <<>>, heap |-> <<>>, out |-> <<>>, err |-> "",
               consts |-> {}, overwritten |-> {}]

RunInit ==
    /\ prog \in RunPrograms
    /\ est = NotStarted
    /\ eret = StmtNone
    /\ ephase = "parsed"
    /\ verdict = Unchecked

\* run: type_check(&syntax_tree, &mut scope_stack) on vec![global_env]
RunTypeCheck ==
    /\ ephase = "parsed"
    /\ verdict' = type_check(prog, <<create_global_environment>>)
    /\ ephase' = "checked"
    /\ UNCHANGED <<prog, est, eret, envVars, pipeVars>>

-----------------------------------------------------------------------------
(* Type checker machine: type_check applied to one program of a bounded     *)
(* family, in the global environment of run().                              *)

TypesInit ==
    /\ prog \in TypePrograms
    /\ est = NotStarted
    /\ eret = StmtNone
    /\ ephase = "parsed"
    /\ verdict = Unchecked

\* run() that interprets whatever type_check returned
AcceptedAlways(checked) == TRUE

\* the match of run on the Result of type_check
Accepted(checked) == checked.ok

\* run, Ok(_): interpret(syntax_tree), which evaluates the program in a new
\* environment of one scope
RunInterpret ==
    /\ ephase = "checked"
    /\ Accepted(verdict)
    /\ LET interpreted(r) == est' = r.st /\ eret' = r.ret
       IN interpreted(Statement(prog, [NotStarted EXCEPT !.env = env_expand_scope(env_new)],
                                MaxFuel))
    /\ ephase' = "done"
    /\ UNCHANGED <<prog, verdict, envVars, pipeVars>>

\* run, Err(e): the message goes to stderr and run returns
RunReject ==
    /\ ephase = "checked"
    /\ ~Accepted(verdict)
    /\ ephase' = "rejected"
    /\ UNCHANGED <<prog, est, eret, verdict, envVars, pipeVars>>

-----------------------------------------------------------------------------
(* Specifications: one per machine; the variables of the other machines     *)
(* stay idle.                                                               *)

InitEnv == EnvInit /\ EvalIdle /\ PipeIdle
NextEnv == EnvExpandScope \/ EnvShrinkScope \/ EnvAdd \/ EnvUpdate
SpecEnv == InitEnv /\ [][NextEnv]_vars

InitEval == EnvIdle /\ EvalInit /\ PipeIdle
NextEval == Interpret
SpecEval == InitEval /\ [][NextEval]_vars

InitPipes == EnvIdle /\ EvalIdle /\ PipeInit
NextPipes ==
    \/ PipeRollout \/ InitPipe \/ SpawnStage \/ AllocTable \/ Collect \/ CollectEnd
    \/ Join \/ PipeReturn
    \/ ThreadSend \/ ThreadExit \/ ImportStart
    \/ MapRecv \/ FilterRecv \/ PrintRecv \/ ReduceStart \/ ReduceRecv \/ ReduceCall
SpecPipes == InitPipes /\ [][NextPipes]_vars

InitRun == EnvIdle /\ RunInit /\ PipeIdle
NextRun == RunTypeCheck \/ RunInterpret \/ RunReject
SpecRun == InitRun /\ [][NextRun]_vars

InitTypes == EnvIdle /\ TypesInit /\ PipeIdle
NextTypes == RunTypeCheck
SpecTypes == InitTypes /\ [][NextTypes]_vars

-----------------------------------------------------------------------------
(* Properties of the environment (SpecEnv) and of the statements (SpecEval) *)

\* the cells of the whole stack binding name
Bindings(e, name) ==
    UNION {{<<i, j>> : j \in {k \in 1..Len(e[i]) : CellName(e[i][k]) = name}} :
              i \in 1..Len(e)}
NoDuplicateNames(e) == \A name \in EnvNames : Cardinality(Bindings(e, name)) <= 1

\* what a step of env_add of a cell named name did to the stack
AddFailed == envStatus' = "panic" /\ env' = env
AddInserted ==
    /\ envStatus' = "ok"
    /\ \E c \in EnvCells :
          /\ CellName(c) = envLast'.name
          /\ env' = [env EXCEPT ![Len(env)] = Append(@, c)]

\* C10, as stated: no name is bound by two cells of the stack, and env_add
\* fails leaving the stack unchanged when the name is bound in any scope,
\* and otherwise inserts the binding in the innermost scope
C10_AddAsStated ==
    [][/\ NoDuplicateNames(env) /\ NoDuplicateNames(env')
       /\ envLast'.op = "add" =>
             IF Bindings(env, envLast'.name) # {} THEN AddFailed ELSE AddInserted]_vars

\* C10, amended: the same, where "otherwise" also needs a scope to insert
\* into: on a stack with no scope env_add fails and changes nothing
C10_NoNameBoundTwice ==
    [][/\ NoDuplicateNames(env) /\ NoDuplicateNames(env')
       /\ envLast'.op = "add" =>
             IF Bindings(env, envLast'.name) # {} \/ Len(env) = 0
             THEN AddFailed ELSE AddInserted]_vars

\* env_add has just failed on a name bound in an outer scope only
C10_Witness ==
    /\ envLast.op = "add" /\ envStatus = "panic"
    /\ Len(env) >= 2
    /\ \E b \in Bindings(env, envLast.name) : b[1] < Len(env)

\* C9: a statement that ends without a panic (and without running out of
\* fuel) leaves the scope stack as deep as it found it
C9_ScopeDepthBalanced ==
    [][(ephase' = "done" /\ est'.err = "") => Len(est'.env) = Len(est.env)]_vars

\* a for loop left by a Return raised in a while loop of its body
C9_Witness ==
    /\ ephase = "done" /\ est.err = "" /\ eret.tag = "Return"
    /\ prog.tag = "For" /\ prog.body.tag = "While"
    /\ Len(est.env) = 2

-----------------------------------------------------------------------------
(* Properties of the pipe engine (SpecPipes)                                *)

Rolled == epc \notin {"idle", "rollout"} /\ Len(pipes) > 0
Last == Len(pipes)
LastIsPrint == Rolled /\ pipes[Last].function.tag = "Print"
LastIsCustom == Rolled /\ pipes[Last].function.tag = "Custom"
IsPrefix(a, b) == Len(a) <= Len(b) /\ a = SubSeq(b, 1, Len(a))

\* the rows of the initial table when the pipe started
InputRows ==
    IF initial_expression.tag = "Identifier"
    THEN memory0[env_get(penv, initial_expression.name).cell.value.v].data
    ELSE IF thr[0].kind = "Producer" THEN thr[0].buf.data
    ELSE <<>>

\* Sequential reference: a stage applied to a whole row sequence, a Map or
\* a Filter one row after the other up to the first call that fails, a
\* Reduce to the table of all the rows, print to every row
RECURSIVE SeqStage(_, _)
SeqStage(pipe, rows) ==
    IF pipe.function.tag = "Print"
    THEN [rows |-> <<>>, out |-> ConcatAll([i \in 1..Len(rows) |-> RowPrint(rows[i])])]
    ELSE IF get_pipe_type(pipe) = "Reduce"
    THEN LET r == evaluate_fn_table_call(
                      [data |-> rows, structure |-> get_call_structure(pipe).structure],
                      pipe.function.f, pipe.args, memory0)
         IN [rows |-> IF r.err = "" /\ r.val.tag = "Table" THEN r.val.v.data ELSE <<>>,
             out |-> r.out]
    ELSE IF rows = <<>> THEN [rows |-> <<>>, out |-> <<>>]
    ELSE LET r == evaluate_fn_row_call(Head(rows), pipe.function.f, pipe.args, memory0)
             rest == SeqStage(pipe, Tail(rows))
             kind == get_pipe_type(pipe)
         IN IF r.err # "" THEN [rows |-> <<>>, out |-> r.out]
            ELSE IF kind = "Map" /\ r.val.tag = "Row"
            THEN [rows |-> <<r.val.v>> \o rest.rows, out |-> r.out \o rest.out]
            ELSE IF kind = "Filter" /\ r.val.tag = "Bool"
            THEN [rows |-> (IF r.val.v THEN <<Head(rows)>> ELSE <<>>) \o rest.rows,
                  out |-> r.out \o rest.out]
            ELSE [rows |-> <<>>, out |-> r.out]

\* the first n stages applied in chain order to the input rows
RECURSIVE SeqChain(_)
SeqChain(n) == IF n = 0 THEN InputRows ELSE SeqStage(pipes[n], SeqChain(n - 1)).rows

OnlyMapAndFilter ==
    /\ Rolled
    /\ \A i \in 1..Len(pipes) :
          pipes[i].function.tag = "Custom" /\ get_pipe_type(pipes[i]) \in {"Map", "Filter"}

\* C1: in a chain of Map and Filter stages the rows that have left a stage
\* are, under every interleaving, the first rows of what the stages applied
\* one after the other give, and all of them once the stage's worker has
\* returned
C1_OrderPreserved ==
    OnlyMapAndFilter =>
        \A i \in 1..Len(pipes) :
            LET rows == SeqChain(i)
            IN /\ IsPrefix(sent[i], rows)
               /\ thr[i].status = "exited" => sent[i] = rows

\* a filter then a map have let one of two rows through, and the pipe returned
C1_Witness ==
    /\ OnlyMapAndFilter /\ epc = "done" /\ Len(pipes) = 2
    /\ get_pipe_type(pipes[1]) = "Filter"
    /\ Len(sent[0]) = 2 /\ Len(sent[2]) = 1

\* C2: a Reduce stage calls its function at most once, and exactly once if
\* its worker returns; when it has called, its input channel is closed and
\* the table it passed holds the rows delivered on that channel, in arrival
\* order; it sends nothing before the call
C2_ReduceCalledOnce ==
    \A i \in 1..Len(pipes) :
        thr[i].kind = "Reduce" =>
            /\ Len(calls[i]) <= 1
            /\ thr[i].status = "exited" => Len(calls[i]) = 1
            /\ calls[i] # <<>> =>
                  /\ chan[i - 1].q = <<>> /\ ~chan[i - 1].snd
                  /\ thr[i - 1].status \in {"exited", "panicked"}
                  /\ calls[i][1].data = sent[i - 1]
            /\ sent[i] # <<>> => calls[i] # <<>>

\* a reducer was called on two rows and its result row was sent on
C2_Witness ==
    \E i \in 1..Len(pipes) :
        /\ thr[i].kind = "Reduce" /\ thr[i].status = "exited"
        /\ Len(calls[i]) = 1 /\ Len(calls[i][1].data) = 2 /\ Len(sent[i]) = 1

\* the strings written, in order, and the writes of worker w among them
Strings(out) == [i \in 1..Len(out) |-> out[i].s]
WritesOf(out, w) == SelectSeq(out, LAMBDA x : x.w = w)
\* the writes of a run in which the evaluator, the producer and each stage
\* worker in chain order run one after the other: workers from w on
RECURSIVE StageByStage(_, _)
StageByStage(out, w) ==
    IF w > Last THEN <<>> ELSE WritesOf(out, w) \o StageByStage(out, w + 1)

\* a thread failed by itself: in its function, its file or its types, and
\* not because the receiver of its channel was gone
StageFailed == \E i \in DOMAIN thr : thr[i].status = "panicked" /\ thr[i].why # "send"
AllJoined == \A i \in DOMAIN thr : thr[i].status = "exited"

\* C3: whatever the interleaving, a pipe that returns has written to stdout
\* what the run in which the threads run one after the other writes, and
\* has collected the table the stages applied one after the other give
C3_SameOutputs ==
    (Rolled /\ epc = "done") =>
        /\ Strings(stdout) = Strings(StageByStage(stdout, Evaluator))
        /\ table.data = SeqChain(Last)

\* C4: while and after a pipe is evaluated, the cells the evaluator had
\* before hold the rows they held, and the only cell added is the one of
\* the table returned
C4_EvaluatorTablesUntouched ==
    epc # "idle" =>
        /\ Len(memory) = Len(memory0) + (IF epc = "done" THEN 1 ELSE 0)
        /\ \A r \in 1..Len(memory0) : memory[r] = memory0[r]

\* a pipe returned whose stage added its two rows to the table passed to it
C4_Witness ==
    /\ Rolled /\ epc = "done"
    /\ \E i \in 1..Len(pipes) : pipes[i].args # <<>> /\ Len(sent[i]) = 2
    /\ memory[result.v].data # <<>>

\* C5: evaluate_pipes does not abort unless a stage function or the
\* producer failed
C5_RunsToCompletion == epc = "aborted" => StageFailed

\* C6: when the last stage is not print, evaluate_pipes returns unless a
\* stage failed, and what it returns is a table of the declared return
\* schema of the last stage holding the rows sent on the last channel
C6_ReturnsLastStageTable ==
    LastIsCustom =>
        /\ (epc = "aborted" => StageFailed)
        /\ epc = "done" =>
              /\ result.tag = "Table"
              /\ memory[result.v].structure = get_return_structure(pipes[Last]).structure
              /\ memory[result.v].data = sent[Last]

EvaluatorWaits ==
    \/ epc = "collect" /\ chan[spawned].q = <<>> /\ chan[spawned].snd
    \/ epc = "join" /\ joined <= Len(pipes) /\ thr[joined].status = "running"

\* C8: once a thread of the pipe has failed the pipe has no value and the
\* evaluator is not at its return; and when no thread runs any more, the
\* evaluator has aborted or has steps left that lead it to the join of the
\* failed thread, it does not wait
C8_FailureAborts ==
    (\E i \in DOMAIN thr : thr[i].status = "panicked") =>
        /\ epc # "done"
        /\ result.tag = "Null"
        /\ ~(epc = "join" /\ joined = Len(pipes) + 1)
        /\ (\A i \in DOMAIN thr : thr[i].status # "running") => ~EvaluatorWaits

\* a stage function failed after rows had been collected, and the evaluator
\* aborted with the partial table
C8_Witness ==
    /\ epc = "aborted"
    /\ \E i \in 1..Len(pipes) : thr[i].status = "panicked" /\ thr[i].why = "call"
    /\ table.data # <<>>

-----------------------------------------------------------------------------
(* Claims about the type checker and the programs it accepts                *)

\* the value the cell of a name holds in an environment
ValueOf(e, name) == e[env_get_optional(e, name)[1]][env_get_optional(e, name)[2]].value

\* C11: in a run of a program the type checker accepted, env_update is never
\* applied to a cell added by a const declaration, and the constants bound
\* when the run ends hold the value they were declared with
C11_ConstNeverUpdated ==
    Accepted(verdict) =>
        /\ est.overwritten = {}
        /\ \A n \in est.consts :
              env_get_optional(est.env, n) # None => ValueOf(est.env, n) = Number(1)

\* an accepted program has declared the constant c, and has called a function
\* that assigns to its own parameter c
C11_Witness ==
    /\ ephase = "done" /\ est.err = ""
    /\ "c" \in est.consts
    /\ est.out = <<"2\n">>

\* C14: as long as type_check has not returned Ok for the whole program, no
\* statement of it has run: the evaluator has no environment, has written
\* nothing and has returned nothing
C14_CheckedBeforeRun ==
    ~verdict.ok => (est = NotStarted /\ eret = StmtNone /\ ephase # "done")

\* a program whose first statement prints was rejected for a later statement
C14_Witness ==
    /\ ephase = "rejected"
    /\ prog.tag = "Compound" /\ prog.s1 = CallPrint(ENumber(1))

-----------------------------------------------------------------------------
(* Claims about assignment (SpecEnv)                                        *)

\* the stack e2 is the stack e1 with the one cell at position p replaced by c
OneCellReplaced(e1, e2, p, c) ==
    /\ Len(e2) = Len(e1)
    /\ \A s \in 1..Len(e1) :
          /\ Len(e2[s]) = Len(e1[s])
          /\ \A i \in 1..Len(e1[s]) :
                e2[s][i] = IF <<s, i>> = p THEN c ELSE e1[s][i]

\* C12: env_update of a name that is unbound or bound to a function fails
\* and leaves the stack as it was; env_update of a name bound to a variable
\* replaces the value of that one cell, every other cell of every scope is
\* kept, and env_get of the name then returns the new value
C12_UpdateOneBinding ==
    [][envLast'.op = "update" =>
          LET p == env_get_optional(env, envLast'.name)
          IN IF p = None
             THEN envStatus' = "panic" /\ env' = env
             ELSE IF env[p[1]][p[2]].tag = "Function"
             THEN envStatus' = "panic" /\ env' = env
             ELSE /\ envStatus' = "ok"
                  /\ OneCellReplaced(env, env', p,
                                     Variable(envLast'.name, envLast'.value))
                  /\ env_get(env', envLast'.name).ok
                  /\ env_get(env', envLast'.name).cell.value = envLast'.value]_vars

\* a variable of an outer scope that holds other cells has just been given
\* the value 1, in a stack of two scopes
C12_Witness ==
    /\ envLast.op = "update" /\ envStatus = "ok"
    /\ envLast.value = Number(1)
    /\ Len(env) = 2 /\ Len(env[1]) >= 2 /\ Len(env[2]) >= 1
    /\ \E b \in Bindings(env, envLast.name) : b[1] = 1

\* an update has just failed on a name bound to a function
C12_WitnessFunction ==
    /\ envLast.op = "update" /\ envStatus = "panic"
    /\ \E b \in Bindings(env, envLast.name) : env[b[1]][b[2]].tag = "Function"


-----------------------------------------------------------------------------
(* Claims about constants at run time (SpecEval)                            *)

\* C13: an assignment that reaches env_update on a binding made by a const
\* declaration fails: no such update has succeeded, and every constant still
\* bound holds the value 1 it was declared with
C13_ConstUpdateFails ==
    ephase = "done" =>
        /\ est.overwritten = {}
        /\ \A n \in est.consts :
              env_get_optional(est.env, n) # None => ValueOf(est.env, n) = Number(1)


-----------------------------------------------------------------------------
(* Claims about the types of pipes and operators (SpecTypes)                *)

\* the three stage shapes over the schema of the streamed rows
FitsMap(schema, param_type, return_type) ==
    param_type = TRow(schema) /\ return_type = TRow(schema)
FitsFilter(schema, param_type, return_type) ==
    param_type = TRow(schema) /\ return_type = TBool
FitsReduce(schema, param_type, return_type) ==
    param_type = TTable(schema) /\ return_type.tag = "Table"
FitsStage(schema, param_type, return_type) ==
    \/ FitsMap(schema, param_type, return_type)
    \/ FitsFilter(schema, param_type, return_type)
    \/ FitsReduce(schema, param_type, return_type)

\* C15: a step `t pipe f()` on the table t of schema (int id, int v), or on
\* t after a reduce stage that keeps the schema, is accepted exactly when
\* f is a map, a filter or a reduce over that schema
C15_PipeStepShapes ==
    \A e \in {T, EPipe(T, "g", <<>>)}, p \in StageParamTypes, r \in StageReturnTypes :
        (ephase = "checked" /\ prog = PipeStep(e, p, r)) =>
            (verdict.ok <=> FitsStage(Schema1, p, r))


-----------------------------------------------------------------------------
(* Claims about scenario E4 (SpecRun)                                       *)

\* C16: the run of E4 passes the type checker and ends having written the
\* rows (1, 11) and (2, 21), in this order, one per line, and nothing else
C16_E4Prints ==
    (prog = E4 /\ ephase \in {"done", "rejected"}) =>
        /\ verdict.ok
        /\ est.err = ""
        /\ est.out = <<"id: 1, ", "v: 11, ", "\n", "id: 2, ", "v: 21, ", "\n">>


\* the typing table of the operators: the type of `left op right`, None when
\* the operation has no type
Numeric == {TInt, TDouble}
OperationType(left, op, right) ==
    CASE op \in {"Addition", "Subtraction", "Multiplication", "Division", "Modulo",
                 "Exponent"} ->
            IF left = TInt /\ right = TInt THEN <<TInt>>
            ELSE IF left \in Numeric /\ right \in Numeric THEN <<TDouble>>
            ELSE None
      [] op \in {"LessThan", "LessThanOrEqual"} ->
            IF left \in Numeric /\ right \in Numeric THEN <<TBool>> ELSE None
      [] op = "Equals" ->
            IF (left \in Numeric /\ right \in Numeric) \/ (left = TString /\ right = TString)
            THEN <<TBool>> ELSE None
      [] op = "Or" -> IF left = TBool /\ right = TBool THEN <<TBool>> ELSE None

\* a value of type found may initialise a variable of type expected
Assignable(expected, found) == expected = found \/ (expected = TDouble /\ found = TInt)

\* C17: `var t x = left op right;` is accepted exactly when the typing table
\* gives the operation a type that may initialise a variable of type t, for
\* every operator and operand types among Int, Double, Bool and String; and a
\* Double is rejected where an Int variable is declared or assigned
C17_OperatorTypes ==
    ephase = "checked" =>
        /\ \A t \in OperandTypes, l \in OperandTypes, op \in Operators, r \in OperandTypes :
              prog = DeclareOperation(t, l, op, r) =>
                  (verdict.ok <=> /\ OperationType(l, op, r) # None
                                  /\ Assignable(t, OperationType(l, op, r)[1]))
        /\ prog \in {NarrowingDeclaration, NarrowingAssignment} => ~verdict.ok
        /\ prog \in {WideningDeclaration, WideningAssignment} => verdict.ok


-----------------------------------------------------------------------------
(* Claims about tables in the evaluator (SpecRun)                           *)

\* the rows read through the variable name: the table its value refers to
Observed(name) == est.heap[ValueOf(est.env, name).v].data

\* the cells of a row, whatever their order
RowCells(row) == {row[i] : i \in 1..Len(row)}
Cells(id, v) == {<<"id", CInt(id)>>, <<"v", CInt(v)>>}

\* the rows an append adds to the table
Appended(how) ==
    CASE how = "t" -> <<Cells(1, 10)>>
      [] how = "u" -> <<Cells(2, 20)>>
      [] how \in {"add(t)", "add(u)"} -> <<Cells(5, 50)>>
      [] how = "import" -> <<Cells(7, 70)>>
      [] how = "import(u)" -> <<Cells(7, 70), Cells(3, 30)>>

\* C18: when a program has appended rows to a table through the variable t,
\* through its alias u, through the parameter of a function called with t or
\* u, through import and through the value import returns, then t and u
\* refer to the same table and every row appended is read through both, in
\* the order of the appends
C18_TablesShared ==
    \A hows \in StatementLists(Appends, MaxAppends) :
        (ephase = "done" /\ prog = AliasProgram(hows)) =>
            /\ est.err = ""
            /\ ValueOf(est.env, "t") = ValueOf(est.env, "u")
            /\ [i \in 1..Len(Observed("t")) |-> RowCells(Observed("t")[i])]
                   = ConcatAll([i \in 1..Len(hows) |-> Appended(hows[i])])
            /\ Observed("u") = Observed("t")

\* rows were appended through the parameter of add called with u, and then
\* through the table import returned
C18_Witness ==
    /\ ephase = "done" /\ est.err = ""
    /\ prog = AliasProgram(<<"add(u)", "import(u)">>)
    /\ Len(Observed("t")) = 3


\* the columns of a row with the types of their cells
RowStructure(row) == {<<row[i][1], row[i][2].tag>> : i \in 1..Len(row)}

\* C19: in every state of a run of a program the type checker accepted,
\* every row of every table of the evaluator has the columns of the table's
\* structure, each once and with a cell of the declared type
C19_RowsFitStructure ==
    Accepted(verdict) =>
        \A ref \in 1..Len(est.heap) :
            \A i \in 1..Len(est.heap[ref].data) :
                /\ RowStructure(est.heap[ref].data[i]) = est.heap[ref].structure
                /\ Len(est.heap[ref].data[i]) = Cardinality(est.heap[ref].structure)


-----------------------------------------------------------------------------
(* Claims about globals in function bodies (SpecRun)                        *)

\* <declaration of c>  fn int g() { return c; }  print(g());
ReaderProgram(declaration) ==
    SeqOf(<<SDeclaration(declaration),
            SDeclaration(DFunction(TInt, "g", <<>>, SReturn(C))),
            CallPrint(EFunctionCall("g", <<>>))>>)
ConstC == DConstant(TInt, "c", ENumber(1))
VarC == DVariable(TInt, "c", ENumber(1))

\* what interpret() makes of a program, were it called without the check
Interpreted(program) ==
    Statement(program, [NotStarted EXCEPT !.env = env_expand_scope(env_new)], MaxFuel).st

-----------------------------------------------------------------------------
(* Claims about the channels and the start of the workers (SpecPipes)       *)

\* a capacity the largest input table exceeds, as some table does for any
\* fixed capacity
ChannelCapacity == MaxRows - 1

\* C21: every channel has one sending and one receiving thread, never queues
\* more rows than its capacity, and hands the rows over in the order they
\* were sent
C21_ChannelsBounded ==
    \A i \in DOMAIN chan :
        /\ Len(chan[i].q) <= ChannelCapacity
        /\ \E k \in 0..Len(sent[i]) :
              chan[i].q = SubSeq(sent[i], k + 1, Len(sent[i]))

\* C22: no row has been sent on the first channel while a stage worker of
\* the chain has not been spawned
C22_WorkersStartedFirst ==
    sent[0] # <<>> => (spawned = Len(pipes) /\ \A i \in Workers : thr[i].status # "unspawned")


\* the outgoing channel of worker i has been closed: it was created and its
\* sending end has been dropped
OutgoingClosed(i) == chan[i].open /\ ~chan[i].snd

\* C23, as stated: no stage worker, print included, has its outgoing channel
\* closed while the sending end of its upstream channel is still alive
C23_ClosedAfterUpstream ==
    \A i \in Workers : OutgoingClosed(i) => ~chan[i - 1].snd

\* C23, amended: a map, filter or reduce worker keeps its outgoing channel
\* open while it runs, and has it closed after a normal end only, when its
\* upstream channel is closed and empty and every row it had to send is
\* sent; a worker that panicked has dropped it on the spot; the outgoing
\* channel of a print worker is closed from the moment the worker is spawned
C23_ClosedAfterUpstreamUnlessPrint ==
    \A i \in Workers :
        thr[i].status # "unspawned" =>
            CASE thr[i].kind = "Print" -> OutgoingClosed(i)
              [] thr[i].status = "running" -> chan[i].snd
              [] thr[i].status = "exited" ->
                    /\ OutgoingClosed(i)
                    /\ ~chan[i - 1].snd /\ chan[i - 1].q = <<>>
                    /\ thr[i].pending = <<>>
              [] OTHER -> OutgoingClosed(i)

\* a print worker runs with rows queued on its upstream channel, whose
\* sender is alive, and its own outgoing channel is closed
C23_Witness ==
    \E i \in Workers :
        /\ thr[i].kind = "Print" /\ thr[i].status = "running"
        /\ chan[i - 1].snd /\ chan[i - 1].q # <<>>
        /\ OutgoingClosed(i)


-----------------------------------------------------------------------------
(* Claims about function calls (SpecEval)                                   *)

\* what the call f(x) of a program about calls prints, x being 0; None when
\* the body cannot run to its return in the environment of the call
CallPrints(which, where) ==
    CASE which = "param" -> <<"1\n">>
      [] which = "redeclare" -> <<"9\n">>
      [] which = "setparam" -> <<"3\n">>
      [] which = "recurse" -> <<"1\n">>
      [] which = "callh" /\ where = "before" -> <<"10\n">>
      [] OTHER -> None

\* C24: the body of f runs in an environment of its own: it finds its
\* parameter, itself, and h when h was declared before f; it finds neither
\* the caller's variable x, to read or to assign, nor an h declared after f;
\* it may declare an x of its own; and after the call the caller's
\* environment is the one the declarations left, x holding 0
C24_CallFrame ==
    [][\A which \in CallBodies, where \in {"before", "after", "none"} :
          (ephase' = "done" /\ prog = CallProgram(which, where)) =>
              IF CallPrints(which, where) = None
              THEN est'.err \in {"identifier not found",
                                 "identifier not found in the environment"}
                   /\ est'.out = <<>>
              ELSE /\ est'.err = ""
                   /\ est'.out = CallPrints(which, where)
                   /\ est'.env = Statement(CallDeclarations(which, where), est, MaxFuel).st.env
                   /\ Len(est'.env) = Len(est.env)
                   /\ ValueOf(est'.env, "x") = Number(0)
                   /\ est'.heap = est.heap]_vars

\* the call of an f that calls the h declared before it has returned, one
\* scope below the top level
C24_Witness ==
    /\ ephase = "done" /\ est.err = ""
    /\ prog = CallProgram("callh", "before")
    /\ est.out = <<"10\n">>
    /\ Len(est.env) = 2


-----------------------------------------------------------------------------
(* Claims that relate the type checker to the evaluator (SpecRun)           *)

\* the messages of env_add, env_get and env_update
ScopeErrors ==
    {"already declared", "identifier not found", "identifier not found in the environment"}

\* C25: a program accepted by the type checker never aborts at run time on a
\* redeclared or an unknown identifier
C25_NoScopeErrorAfterCheck == (ephase = "done" /\ verdict.ok) => est.err \notin ScopeErrors


\* C26: a step `pipe f(a1)` on a stage f of two parameters, the row and one
\* more, passes type checking
C26_WrittenArgumentsAccepted ==
    \A e \in StepInputs \ {EPipe(T, "g", <<>>)} :
        (ephase = "checked" /\ prog = ArgumentStep(e, <<ENumber(1)>>)) => verdict.ok


-----------------------------------------------------------------------------
(* Claims about the arguments of the stages (SpecPipes)                     *)

StageNamed(i, name) == pipes[i].function.tag = "Custom" /\ pipes[i].function.f.name = name

\* the rows stage i has produced: those sent and the one about to be sent
Produced(i) == sent[i] \o thr[i].pending

\* C27: every call of a stage function finds the table argument as it was
\* evaluated, without the rows earlier calls appended to it: seen, which
\* appends the row to the table and returns the number of rows the table
\* then holds, returns 1 for every row, and fresh, which keeps a row when
\* that number is below 2, keeps every row
C27_ArgumentsFreshPerRow ==
    \A i \in Workers :
        /\ StageNamed(i, "seen") =>
               \A k \in 1..Len(Produced(i)) : Produced(i)[k][2] = <<"v", CInt(1)>>
        /\ (StageNamed(i, "fresh") /\ thr[i].status \in {"running", "exited"}) =>
               Produced(i) = SubSeq(sent[i - 1], 1, Len(sent[i - 1]) - Len(chan[i - 1].q))

\* seen has answered for two rows and fresh has kept both
C27_Witness ==
    /\ Len(pipes) = 2 /\ StageNamed(1, "seen") /\ StageNamed(2, "fresh")
    /\ Len(sent[1]) = 2 /\ Len(sent[2]) = 2


\* what the arguments written in MarkedChains for a stage write when they
\* are evaluated, left to right
StageWrites(name) ==
    CASE name = "keep" -> <<"1\n", "2\n">>
      [] name = "step" -> <<"3\n">>
      [] name = "print" -> <<"4\n">>

RECURSIVE ArgumentWrites(_)
\* the writes of the arguments of a chain, those of the last stage first
ArgumentWrites(expr) ==
    IF expr.tag = "Pipe" THEN StageWrites(expr.name) \o ArgumentWrites(expr.e) ELSE <<>>

EvaluatorWrites == Strings(WritesOf(stdout, Evaluator))
NoThreadYet == \A i \in DOMAIN thr : thr[i].status = "unspawned"

-----------------------------------------------------------------------------
(* Claims about loops over tables (SpecRun)                                 *)

\* the rows (1, 10) .. (n, 10 n) as the table holds them
HeldRows(n) == [i \in 1..n |-> <<<<"id", CInt(i)>>, <<"v", CInt(10 * i)>>>>]
\* what print(r.id) writes for the rows 1 .. n
PrintedIds(n) == [i \in 1..n |-> ToString(i) \o "\n"]

\* C28: a loop over t, or over its alias u, runs its body once for each of
\* the n rows t held; a body that appends to t (directly, through u,
\* through add, or by import) aborts the program in the first iteration with
\* t as it was; a body that appends to another table w completes
C28_LoopOverRowsHeld ==
    \A n \in 0..MaxAppends, e \in {T, U}, how \in ForBodies :
        (ephase = "done" /\ prog = ForProgram(n, e, how)) =>
            /\ est.heap[1].data = HeldRows(n)
            /\ IF n > 0 /\ how \in Appends
               THEN est.err = "already borrowed" /\ est.out = <<>>
               ELSE /\ est.err = ""
                    /\ est.heap[1].readers = 0
                    /\ est.out = (IF how = "print" THEN PrintedIds(n) ELSE <<>>)
                    /\ Len(est.heap[2].data) = (IF how = "w" THEN n ELSE 0)

\* the loop over the alias u was aborted by an append through add(t)
C28_Witness ==
    /\ ephase = "done" /\ prog = ForProgram(2, U, "add(t)")
    /\ est.err = "already borrowed"
    /\ Len(est.heap[1].data) = 2

\* the loop over t of two rows printed both ids
C28_WitnessCompleted ==
    /\ ephase = "done" /\ prog = ForProgram(2, T, "print")
    /\ est.out = <<"1\n", "2\n">>


-----------------------------------------------------------------------------
(* Claims about the return type of functions (SpecTypes)                    *)

\* C29: in an accepted program the expression a stage function returns, its
\* parameter a of type p, has the declared return type r
C29_ReturnsHaveDeclaredType ==
    \A e \in StepInputs, p \in StageParamTypes, r \in StageReturnTypes :
        (ephase = "checked" /\ prog = PipeStep(e, p, r) /\ verdict.ok) => p = r


====
